---- MODULE Spec2Model ----
(***************************************************************************)
(* Model of the Renogy BLE polling coordinator                             *)
(* (custom_components/renogy/ble.py) and of the device availability state  *)
(* (custom_components/renogy/device.py).                                   *)
(*                                                                         *)
(* The coordinator runs on a single-threaded asyncio event loop: a task    *)
(* runs without interruption from one await that suspends to the next.     *)
(* Every action below is one such uninterrupted run of one task (or one    *)
(* synchronous call made by the host).                                     *)
(***************************************************************************)
EXTENDS Integers, Sequences, FiniteSets, TLC

(* ------------------------------ bounds -------------------------------- *)
NumTasks == 2
NumListeners == 1
NumReadings == 1
MaxTime == 0
MaxFailCount == 3
MaxCalls == 6
SmallChunk == 7
LargeChunk == 20
MaxMessages == 2
MaxFrameLen == 3

(* ------------------------- program constants -------------------------- *)
\* The clock counts ticks of ten minutes: UNAVAILABLE_RETRY_INTERVAL (10
\* minutes) is one tick, and the coordinator is configured with a scan
\* interval of MAX_SCAN_INTERVAL (600 seconds), one tick as well.
max_failures == 3
ScanInterval == 1
UNAVAILABLE_RETRY_INTERVAL == 1
None == -1

Tasks == 1..NumTasks
Listeners == 1..NumListeners
Metrics == 0..NumReadings
Times == 0..MaxTime
DeviceTypes == {"controller", "battery", "shunt"}
SHUNT == "shunt"
\* COMMANDS: the Modbus command table, by device type
COMMANDS ==
  [controller |-> <<"device_info", "device_id", "battery", "pv">>]

VARIABLES
  hassState,              \* hass.state: "starting", "running" or "stopping"
  deviceType,             \* self._device_type
  phase,                  \* "constructed", "started" (async_start ran) or
                          \* "stopped" (async_stop ran)
  refreshTask,            \* self._request_refresh_task (0: none or done)
  listeners,              \* self._listeners
  connection_in_progress, \* self._connection_in_progress
  lockHolder,             \* the task holding self._connection_lock (0: free)
  lockWaiters,            \* the tasks waiting on self._connection_lock
  sessions,               \* the tasks whose BLE client is connected
  device,                 \* self.device (a RenogyBLEDevice or absent)
  last_update_success,    \* self.last_update_success
  data,                   \* self.data
  last_poll_time,         \* self.last_poll_time
  tasks,                  \* position and locals of every task
  ev,                     \* the operation the last step ran, with its result
  hist,                   \* the update_availability calls made so far
  frame                   \* the locals of the exchange coroutine that
                          \* SpecModbus and SpecParser follow step by step

vars == <<hassState, deviceType, phase, refreshTask, listeners,
          connection_in_progress, lockHolder, lockWaiters, sessions, device,
          last_update_success, data, last_poll_time, tasks, ev, hist, frame>>

(* ------------------------- RenogyBLEDevice ---------------------------- *)
NoDevice ==
  [exists |-> FALSE, failure_count |-> 0, available |-> TRUE,
   last_unavailable_time |-> None, parsed_data |-> 0]

\* RenogyBLEDevice.__init__
NewDevice ==
  [exists |-> TRUE, failure_count |-> 0, available |-> TRUE,
   last_unavailable_time |-> None, parsed_data |-> 0]

\* RenogyBLEDevice.is_available
IsAvailable(d) == d.available /\ d.failure_count < max_failures

UpdateAvailabilityLateThreshold(d, success, t) ==
  IF success
  THEN IF ~d.available
       THEN [d EXCEPT !.failure_count = 0, !.available = TRUE,
                      !.last_unavailable_time = None]
       ELSE [d EXCEPT !.failure_count = 0]
  ELSE IF d.failure_count + 1 > max_failures /\ d.available
       THEN [d EXCEPT !.failure_count = @ + 1, !.available = FALSE,
                      !.last_unavailable_time = t]
       ELSE [d EXCEPT !.failure_count = @ + 1]

UpdateAvailabilityNoReset(d, success, t) ==
  IF success
  THEN IF ~d.available
       THEN [d EXCEPT !.failure_count = 0, !.available = TRUE,
                      !.last_unavailable_time = None]
       ELSE d
  ELSE IF d.failure_count + 1 >= max_failures /\ d.available
       THEN [d EXCEPT !.failure_count = @ + 1, !.available = FALSE,
                      !.last_unavailable_time = t]
       ELSE [d EXCEPT !.failure_count = @ + 1]

\* RenogyBLEDevice.update_availability(success, error) at time t
UpdateAvailabilityKeepsTime(d, success, t) ==
  IF success
  THEN IF ~d.available
       THEN [d EXCEPT !.failure_count = 0, !.available = TRUE]
       ELSE [d EXCEPT !.failure_count = 0]
  ELSE IF d.failure_count + 1 >= max_failures /\ d.available
       THEN [d EXCEPT !.failure_count = @ + 1, !.available = FALSE,
                      !.last_unavailable_time = t]
       ELSE [d EXCEPT !.failure_count = @ + 1]

UpdateAvailability(d, success, t) ==
  IF success
  THEN IF ~d.available
       THEN [d EXCEPT !.failure_count = 0, !.available = TRUE,
                      !.last_unavailable_time = None]
       ELSE [d EXCEPT !.failure_count = 0]
  ELSE IF d.failure_count + 1 >= max_failures /\ d.available
       THEN [d EXCEPT !.failure_count = @ + 1, !.available = FALSE,
                      !.last_unavailable_time = t]
       ELSE [d EXCEPT !.failure_count = @ + 1]

\* RenogyBLEDevice.should_retry_connection: the value returned and the
\* device after the call (the property writes last_unavailable_time)
ShouldRetryConnection(d, t) ==
  IF IsAvailable(d)
  THEN [ret |-> TRUE, dev |-> d]
  ELSE IF d.last_unavailable_time = None
       THEN [ret |-> FALSE, dev |-> [d EXCEPT !.last_unavailable_time = t]]
       ELSE IF t >= d.last_unavailable_time + UNAVAILABLE_RETRY_INTERVAL
            THEN [ret |-> TRUE, dev |-> [d EXCEPT !.last_unavailable_time = t]]
            ELSE [ret |-> FALSE, dev |-> d]

(* ----------------------------- tasks ---------------------------------- *)
\* pc: where the task is suspended
\*   idle        no coroutine runs in this slot
\*   scheduled   the debounced poll was scheduled, _async_poll not yet run
\*   created     hass.async_create_task(async_request_refresh()) not yet run
\*   waitlock    suspended in "async with self._connection_lock"
\*   connect     awaiting establish_connection
\*   subscribe   awaiting client.start_notify
\*   s_trigger   shunt: awaiting the CCCD / trigger writes
\*   s_wait      shunt: awaiting the notification event
\*   m_write     Modbus: awaiting client.write_gatt_char for command cmd
\*   m_wait      Modbus: awaiting the response of command cmd
\*   unsub       awaiting client.stop_notify
\*   disconnect  in the finally block, awaiting client.disconnect
IdleTask ==
  [pc |-> "idle", entry |-> "none", cmd |-> 0, anyOk |-> FALSE,
   result |-> "none", updates |-> <<>>, cancelReq |-> FALSE]

ExchangePcs ==
  {"connect", "subscribe", "s_trigger", "s_wait", "m_write", "m_wait",
   "unsub", "disconnect"}

InExchange(t) == tasks[t].pc \in ExchangePcs

RefreshEntries == {"interval", "initial", "manual"}

EvNone(op) ==
  [op |-> op, entry |-> "none", conn |-> FALSE, lp |-> None, nw |-> 0,
   ret |-> FALSE, outcome |-> "none", updates |-> <<>>, fired |-> <<>>,
   dropped |-> <<>>]

RemoveAt(s, x) == SelectSeq(s, LAMBDA y : y # x)

InSeq(s, x) == \E i \in 1..Len(s) : s[i] = x

\* the reference kept in _request_refresh_task stops being cancellable
\* once its task is done
TaskDone(t) == IF refreshTask = t THEN 0 ELSE refreshTask

(* ---------------------- asyncio.Lock (acquire) ------------------------ *)
LockFreeIgnored == TRUE

\* asyncio.Lock.acquire takes the lock at once when it is not held and
\* nobody waits for it; otherwise the caller is queued
LockFree == lockHolder = 0 /\ lockWaiters = <<>>

(* ----------------------------- _needs_poll ---------------------------- *)
\* _needs_poll(service_info, last_poll); conn: async_ble_device_from_address
\* found a connectable device
NeedsPoll(conn, lp, nw) ==
  IF hassState # "running" THEN FALSE
  ELSE IF ~conn THEN FALSE
  ELSE IF connection_in_progress THEN FALSE
  ELSE IF lp = None THEN TRUE
  ELSE nw - lp >= ScanInterval

HassAllowsIntervalAlways == TRUE

\* _handle_refresh_interval: the host states in which the timer refreshes
HassAllowsInterval == hassState \in {"starting", "running"}

\* async_update_listeners: the host states in which listeners are called
HassAllowsListeners == hassState \in {"starting", "running"}

\* Spec keeps the locals of an exchange in tasks[t]
NoFrame == [pc |-> "none"]

(* --------------------------- construction ----------------------------- *)
\* RenogyActiveBluetoothCoordinator.__init__
Init ==
  /\ hassState \in {"starting", "running"}
  /\ deviceType \in DeviceTypes
  /\ phase = "constructed"
  /\ refreshTask = 0
  /\ listeners = <<>>
  /\ connection_in_progress = FALSE
  /\ lockHolder = 0
  /\ lockWaiters = <<>>
  /\ sessions = {}
  /\ device = NoDevice
  /\ last_update_success = TRUE
  /\ data = 0
  /\ last_poll_time = None
  /\ tasks = [t \in Tasks |-> IdleTask]
  /\ ev = EvNone("init")
  /\ hist = <<>>
  /\ frame = NoFrame

coordVars ==
  <<connection_in_progress, lockHolder, lockWaiters, sessions, device,
    last_update_success, data, last_poll_time, tasks>>

hostVars == <<phase, refreshTask, listeners>>

(* --------------------------- environment ------------------------------ *)
\* the host moves through its life cycle (hass.state)
HassStateChange ==
  /\ \/ hassState = "starting" /\ hassState' = "running"
     \/ hassState = "running" /\ hassState' = "stopping"
  /\ ev' = EvNone("step")
  /\ UNCHANGED <<deviceType, hostVars, coordVars, hist, frame>>

(* ------------------------------ listeners ----------------------------- *)
\* async_add_listener(update_callback)
AsyncAddListener(l) ==
  /\ listeners' = IF InSeq(listeners, l) THEN listeners
                  ELSE Append(listeners, l)
  /\ ev' = EvNone("step")
  /\ UNCHANGED <<hassState, deviceType, phase, refreshTask,
                 coordVars, hist, frame>>

\* remove_listener(), the function async_add_listener returned
RemoveListener(l) ==
  /\ InSeq(listeners, l)
  /\ listeners' = RemoveAt(listeners, l)
  /\ ev' = EvNone("step")
  /\ UNCHANGED <<hassState, deviceType, phase, refreshTask,
                 coordVars, hist, frame>>

(* ------------------------------ inputs -------------------------------- *)
\* the values datetime.now() can return: the clock never runs backwards.
\* ClockReadings are the readings the coordinator stores; LaterReadings
\* also holds the readings one interval later, for the calls that compare
\* the clock
ClockReadings ==
  {x \in Times : x >= last_poll_time /\ x >= device.last_unavailable_time}

LaterReadings ==
  {x \in 0..(MaxTime + 1) :
     x >= last_poll_time /\ x >= device.last_unavailable_time}

\* a new coroutine takes the first free task slot
FreeSlot(t) ==
  /\ tasks[t].pc = "idle"
  /\ \A u \in Tasks : u < t => tasks[u].pc # "idle"

(* ------------------------- _async_poll (entry) ------------------------ *)
\* _async_poll past its in-progress check, up to the first suspension of
\* _read_device_data: last_poll_time is set, then either the lock is taken
\* (flag set, device created, establish_connection awaited) or the task
\* queues on the lock
BeginPoll(t, entry, nw) ==
  /\ last_poll_time' = nw
  /\ IF LockFree
     THEN /\ lockHolder' = t
          /\ connection_in_progress' = TRUE
          /\ device' = IF device.exists THEN device ELSE NewDevice
          /\ tasks' = [tasks EXCEPT ![t] =
                         [IdleTask EXCEPT !.pc = "connect", !.entry = entry]]
          /\ UNCHANGED lockWaiters
     ELSE /\ lockWaiters' = Append(lockWaiters, t)
          /\ tasks' = [tasks EXCEPT ![t] =
                         [IdleTask EXCEPT !.pc = "waitlock", !.entry = entry]]
          /\ UNCHANGED <<lockHolder, connection_in_progress, device>>

\* async_request_refresh up to its first suspension; si: the transport has
\* a service info for the address (bluetooth.async_last_service_info)
RequestRefresh(t, entry, si, nw) ==
  /\ IF connection_in_progress
     THEN /\ ev' = EvNone("refresh")
          /\ tasks' = [tasks EXCEPT ![t] = IdleTask]
          /\ refreshTask' = TaskDone(t)
          /\ UNCHANGED <<connection_in_progress, lockHolder, lockWaiters,
                         device, last_update_success, last_poll_time>>
     ELSE IF ~si
     THEN /\ ev' = EvNone("refresh")
          /\ last_update_success' = FALSE
          /\ tasks' = [tasks EXCEPT ![t] = IdleTask]
          /\ refreshTask' = TaskDone(t)
          /\ UNCHANGED <<connection_in_progress, lockHolder, lockWaiters,
                         device, last_poll_time>>
     ELSE /\ ev' = EvNone("refresh")
          /\ BeginPoll(t, entry, nw)
          /\ UNCHANGED <<last_update_success, refreshTask>>
  /\ UNCHANGED <<hassState, deviceType, phase, listeners, sessions, data,
                 hist, frame>>

\* a caller awaits async_request_refresh() (manual refresh)
ManualRefresh(t, si) ==
  \E nw \in ClockReadings :
    /\ FreeSlot(t)
    /\ RequestRefresh(t, "manual", si, nw)

\* _handle_refresh_interval: the interval timer fires
HandleRefreshInterval(t, si) ==
  \E nw \in ClockReadings :
    /\ phase = "started"
    /\ FreeSlot(t)
    /\ IF HassAllowsInterval
       THEN RequestRefresh(t, "interval", si, nw)
       ELSE /\ ev' = EvNone("step")
            /\ UNCHANGED <<hassState, deviceType, hostVars, coordVars, hist, frame>>

\* the task async_start created runs async_request_refresh
InitialRefreshRun(t, si) ==
  \E nw \in ClockReadings :
    /\ tasks[t].pc = "created"
    /\ ~tasks[t].cancelReq
    /\ RequestRefresh(t, "initial", si, nw)

(* --------------------------- scheduled poll --------------------------- *)
\* the inputs _needs_poll read before it returned
NeedsPollRead(conn, lp, nw) ==
  IF hassState # "running" THEN [conn |-> FALSE, lp |-> None, nw |-> 0]
  ELSE IF ~conn \/ connection_in_progress
       THEN [conn |-> conn, lp |-> None, nw |-> 0]
  ELSE IF lp = None THEN [conn |-> conn, lp |-> None, nw |-> 0]
  ELSE [conn |-> conn, lp |-> lp, nw |-> nw]

\* an advertisement arrives: the active update coordinator asks
\* _needs_poll(service_info, last_poll) and schedules the poll method when
\* it answers True; one debounced poll is pending or running at a time.
\* The subscription is made by async_start; async_stop does not end it
\* (it only clears _unsubscribe_bluetooth, which the coordinator never sets)
AdvertisementReceived(t, conn, lp) ==
  \E nw \in LaterReadings :
    /\ phase # "constructed"
    /\ FreeSlot(t)
    /\ \A u \in Tasks : tasks[u].entry # "poll"
    /\ ev' = [EvNone("needs_poll") EXCEPT
                !.conn = NeedsPollRead(conn, lp, nw).conn,
                !.lp = NeedsPollRead(conn, lp, nw).lp,
                !.nw = NeedsPollRead(conn, lp, nw).nw,
                !.ret = NeedsPoll(conn, lp, nw)]
    /\ tasks' = IF NeedsPoll(conn, lp, nw)
                THEN [tasks EXCEPT ![t] =
                        [IdleTask EXCEPT !.pc = "scheduled", !.entry = "poll"]]
                ELSE tasks
    /\ UNCHANGED <<hassState, deviceType, hostVars, connection_in_progress,
                   lockHolder, lockWaiters, sessions, device,
                   last_update_success, data, last_poll_time, hist, frame>>

\* the scheduled poll runs _async_poll(service_info)
AsyncPoll(t) ==
  \E nw \in ClockReadings :
    /\ tasks[t].pc = "scheduled"
    /\ ev' = EvNone("step")
    /\ IF connection_in_progress
       THEN /\ tasks' = [tasks EXCEPT ![t] = IdleTask]
            /\ UNCHANGED <<connection_in_progress, lockHolder, lockWaiters,
                           device, last_poll_time>>
       ELSE BeginPoll(t, "poll", nw)
    /\ UNCHANGED <<hassState, deviceType, hostVars, sessions,
                   last_update_success, data, hist, frame>>

\* a task queued on the lock is woken once the lock is free and enters
\* _read_device_data
LockAcquired(t) ==
  /\ tasks[t].pc = "waitlock"
  /\ ~tasks[t].cancelReq
  /\ lockHolder = 0
  /\ lockWaiters # <<>>
  /\ Head(lockWaiters) = t
  /\ lockHolder' = t
  /\ lockWaiters' = Tail(lockWaiters)
  /\ connection_in_progress' = TRUE
  /\ device' = IF device.exists THEN device ELSE NewDevice
  /\ tasks' = [tasks EXCEPT ![t].pc = "connect"]
  /\ ev' = EvNone("step")
  /\ UNCHANGED <<hassState, deviceType, hostVars, sessions,
                 last_update_success, data, last_poll_time, hist, frame>>

(* ------------------------ end of a poll cycle ------------------------- *)
ReadDeviceDataExitFlagKeptOnError(r) ==
  IF r = "raised" THEN connection_in_progress ELSE FALSE

\* _read_device_data, the finally clause: the value of
\* _connection_in_progress when the exchange ended with r
ReadDeviceDataExitFlag(r) == FALSE

\* The run of task t from the last resumption inside its exchange to the end
\* of its coroutine.  r is how the exchange ended: "success" or "failure"
\* (the bool _read_device_data returns), "raised" (an exception leaves it),
\* "cancelled" (CancelledError leaves it); d1, lus1, data1, upd1 are the
\* device, last_update_success, data and the availability updates of this
\* cycle as the exchange left them; nw is the clock.
\*   _read_device_data: finally clears the flag; the lock is released
\*   _async_poll: on success with parsed data, async_update_listeners();
\*     otherwise last_update_success = False
\*   async_request_refresh: after _async_poll returned, last_update_success =
\*     True and every listener is called; on an exception,
\*     last_update_success = False and update_availability(False)
FinishCycle(t, r, d1, lus1, data1, upd1, nw) ==
  LET entry == tasks[t].entry
      returned == r \in {"success", "failure"}
      pollOk == r = "success" /\ d1.exists /\ d1.parsed_data # 0
      firedPoll == IF returned /\ pollOk /\ HassAllowsListeners
                   THEN listeners ELSE <<>>
      lus2 == IF returned /\ ~pollOk THEN FALSE ELSE lus1
      refresh == entry \in RefreshEntries
      caught == refresh /\ r = "raised"
      firedAll == IF refresh /\ returned THEN firedPoll \o listeners
                  ELSE firedPoll
      lus3 == IF refresh /\ returned THEN TRUE
              ELSE IF caught THEN FALSE ELSE lus2
      d2 == IF caught /\ d1.exists THEN UpdateAvailability(d1, FALSE, nw)
            ELSE d1
      upd2 == IF caught /\ d1.exists THEN Append(upd1, FALSE) ELSE upd1
  IN  /\ caught => d1.failure_count < MaxFailCount
      /\ connection_in_progress' = ReadDeviceDataExitFlag(r)
      /\ lockHolder' = 0
      \* the session is closed by the disconnect of the finally block, the
      \* step a task at "disconnect" completes; no other step closes it
      /\ sessions' = IF tasks[t].pc = "disconnect"
                     THEN sessions \ {t} ELSE sessions
      /\ device' = d2
      /\ last_update_success' = lus3
      /\ data' = data1
      /\ tasks' = [tasks EXCEPT ![t] = IdleTask]
      /\ refreshTask' = TaskDone(t)
      /\ ev' = [EvNone("cycle_end") EXCEPT
                  !.entry = entry, !.outcome = r, !.updates = upd2,
                  !.fired = firedAll]
      /\ UNCHANGED <<hassState, deviceType, phase, listeners, lockWaiters,
                     last_poll_time, hist, frame>>

\* a step inside the exchange that suspends again at pc2
Continue(t, pc2) ==
  /\ tasks' = [tasks EXCEPT ![t].pc = pc2]
  /\ ev' = EvNone("step")
  /\ UNCHANGED <<hassState, deviceType, hostVars, connection_in_progress,
                 lockHolder, lockWaiters, sessions, device,
                 last_update_success, data, last_poll_time, hist, frame>>

\* a changed ToDisconnect: the step returns or raises without the finally
\* block
ToDisconnectSkipsFinally(t, r, d1, lus1, data1, upd1) ==
  \E nw \in ClockReadings :
    FinishCycle(t, r, d1, lus1, data1, upd1, nw)

\* a step inside the exchange that leaves the try block with result r and
\* suspends in the finally block (client.disconnect)
ToDisconnect(t, r, d1, lus1, data1, upd1) ==
  /\ tasks' = [tasks EXCEPT ![t].pc = "disconnect", ![t].result = r,
                            ![t].updates = upd1]
  /\ device' = d1
  /\ last_update_success' = lus1
  /\ data' = data1
  /\ ev' = EvNone("step")
  /\ UNCHANGED <<hassState, deviceType, hostVars, connection_in_progress,
                 lockHolder, lockWaiters, sessions, last_poll_time, hist, frame>>

Running(t, pc) == tasks[t].pc = pc /\ ~tasks[t].cancelReq

IsShunt == deviceType = SHUNT

(* ------------------------ establish_connection ------------------------ *)
\* _read_shunt_device / _read_modbus_device: await establish_connection
\* outcome: "ok", "bleak_error" (BleakError) or "error" (another exception)
EstablishConnection(t, outcome) ==
  \E nw \in ClockReadings :
    /\ Running(t, "connect")
    /\ CASE outcome = "ok" ->
              /\ sessions' = sessions \cup {t}
              /\ tasks' = [tasks EXCEPT ![t].pc = "subscribe"]
              /\ ev' = EvNone("step")
              /\ UNCHANGED <<hassState, deviceType, hostVars,
                             connection_in_progress, lockHolder, lockWaiters,
                             device, last_update_success, data, last_poll_time,
                             hist, frame>>
         [] outcome = "bleak_error" \/ (outcome = "error" /\ ~IsShunt) ->
              \* except: update_availability(False), last_update_success =
              \* False, return False
              /\ device.failure_count < MaxFailCount
              /\ FinishCycle(t, "failure",
                             UpdateAvailability(device, FALSE, nw), FALSE,
                             data, <<FALSE>>, nw)
         [] outcome = "error" /\ IsShunt ->
              \* the shunt path catches BleakError only
              FinishCycle(t, "raised", device, last_update_success, data, <<>>,
                          nw)

(* ------------------------------ shunt --------------------------------- *)
\* await client.start_notify(NOTIFY_CHAR_UUID, _notif_handler)
ShuntStartNotify(t, outcome) ==
  \E nw \in ClockReadings :
    /\ IsShunt
    /\ Running(t, "subscribe")
    /\ CASE outcome = "ok" -> Continue(t, "s_trigger")
         [] outcome = "bleak_error" ->
              /\ device.failure_count < MaxFailCount
              /\ ToDisconnect(t, "failure",
                              UpdateAvailability(device, FALSE, nw), FALSE,
                              data, <<FALSE>>)
         [] outcome = "error" ->
              ToDisconnect(t, "raised", device, last_update_success, data,
                           <<>>)

\* the CCCD write and the trigger write; a failure of either is logged
ShuntTrigger(t) ==
  /\ IsShunt
  /\ Running(t, "s_trigger")
  /\ Continue(t, "s_wait")

\* await asyncio.wait_for(notification_event.wait(), 2.0)
ShuntWaitNotification(t, outcome) ==
  /\ IsShunt
  /\ Running(t, "s_wait")
  /\ CASE outcome = "notified" -> Continue(t, "unsub")
       [] outcome = "timeout" ->
            \* except asyncio.TimeoutError: return False
            ToDisconnect(t, "failure", device, last_update_success, data,
                         <<>>)

\* await client.stop_notify, then the packets are parsed into metrics m
\* (0: no packet decoded) and stored
ShuntStopNotify(t, outcome, m) ==
  \E nw \in ClockReadings :
    /\ IsShunt
    /\ Running(t, "unsub")
    /\ CASE outcome = "ok" ->
              ToDisconnect(t, "success",
                           UpdateAvailability(
                             [device EXCEPT !.parsed_data = m], TRUE, nw),
                           TRUE, m, <<TRUE>>)
         [] outcome = "bleak_error" ->
              /\ device.failure_count < MaxFailCount
              /\ ToDisconnect(t, "failure",
                              UpdateAvailability(device, FALSE, nw), FALSE,
                              data, <<FALSE>>)

\* finally: client.disconnect() (its errors are logged), then the result
\* is returned or the exception continues
ShuntDisconnect(t) ==
  \E nw \in ClockReadings :
    /\ IsShunt
    /\ Running(t, "disconnect")
    /\ FinishCycle(t, tasks[t].result, device, last_update_success, data,
                   tasks[t].updates, nw)

(* ------------------------------ Modbus -------------------------------- *)
\* await client.start_notify(RENOGY_READ_CHAR_UUID, notification_handler),
\* then the loop over COMMANDS[self.device_type] starts (a device type
\* without a command table raises KeyError, caught as a failure)
ModbusStartNotify(t, outcome) ==
  /\ ~IsShunt
  /\ Running(t, "subscribe")
  /\ IF outcome = "ok" /\ deviceType \in DOMAIN COMMANDS
     THEN /\ tasks' = [tasks EXCEPT ![t].pc = "m_write", ![t].cmd = 1]
          /\ ev' = EvNone("step")
          /\ UNCHANGED <<hassState, deviceType, hostVars,
                         connection_in_progress, lockHolder, lockWaiters,
                         sessions, device, last_update_success, data,
                         last_poll_time, hist, frame>>
     ELSE ToDisconnect(t, "failure", device, last_update_success, data,
                       <<>>)

\* await client.write_gatt_char(RENOGY_WRITE_CHAR_UUID, modbus_request)
ModbusWrite(t, outcome) ==
  /\ ~IsShunt
  /\ Running(t, "m_write")
  /\ CASE outcome = "ok" -> Continue(t, "m_wait")
       [] outcome = "error" ->
            ToDisconnect(t, "failure", device, last_update_success, data,
                         <<>>)

\* the wait for the response of command cmd ends: "timeout" (continue with
\* the next command), "parsed" (update_parsed_data merged metrics m) or
\* "unparsed" (update_parsed_data returned False)
ModbusResponse(t, outcome, m) ==
  /\ ~IsShunt
  /\ Running(t, "m_wait")
  /\ LET last == tasks[t].cmd = Len(COMMANDS[deviceType])
     IN tasks' = [tasks EXCEPT
                    ![t].pc = IF last THEN "unsub" ELSE "m_write",
                    ![t].cmd = IF last THEN @ ELSE @ + 1,
                    ![t].anyOk = @ \/ outcome = "parsed"]
  /\ device' = IF outcome = "parsed"
               THEN [device EXCEPT !.parsed_data = m] ELSE device
  /\ ev' = EvNone("step")
  /\ UNCHANGED <<hassState, deviceType, hostVars, connection_in_progress,
                 lockHolder, lockWaiters, sessions, last_update_success, data,
                 last_poll_time, hist, frame>>

\* await client.stop_notify(notify_uuid); success = any_command_succeeded
ModbusStopNotify(t, outcome) ==
  /\ ~IsShunt
  /\ Running(t, "unsub")
  /\ ToDisconnect(t,
                  IF outcome = "ok" /\ tasks[t].anyOk
                  THEN "success" ELSE "failure",
                  device, last_update_success, data, <<>>)

ModbusDataAlwaysReplaced(ok) == device.parsed_data

\* if success and device.parsed_data: self.data = dict(device.parsed_data)
ModbusData(ok) ==
  IF ok /\ device.parsed_data # 0 THEN device.parsed_data ELSE data

\* finally: client.disconnect() ("error": it raises), then
\* update_availability(final_success), last_update_success, self.data
ModbusDisconnect(t, outcome) ==
  \E nw \in ClockReadings :
    /\ ~IsShunt
    /\ Running(t, "disconnect")
    /\ LET r == tasks[t].result
           ok == r = "success"
       IN CASE r \in {"raised", "cancelled"} /\ outcome = "ok" ->
                 FinishCycle(t, r, device, last_update_success, data, <<>>, nw)
            [] (ok \/ r \in {"raised", "cancelled"}) /\ outcome = "error" ->
                 \* "if error is None" reads a local that was never bound
                 \* (no except clause ran: the try block completed or a
                 \* CancelledError is passing through)
                 FinishCycle(t, "raised", device, last_update_success, data,
                             <<>>, nw)
            [] OTHER ->
                 /\ ~ok => device.failure_count < MaxFailCount
                 /\ FinishCycle(t, r, UpdateAvailability(device, ok, nw), ok,
                                ModbusData(ok), <<ok>>, nw)

(* ---------------------------- cancellation ---------------------------- *)
\* a changed CancelDelivered: the CancelledError ends the coroutine at once,
\* without the finally block of the exchange
CancelDeliveredSkipsFinally(t) ==
  \E nw \in ClockReadings :
    /\ tasks[t].cancelReq
    /\ InExchange(t)
    /\ FinishCycle(t, "cancelled", device, last_update_success, data,
                   tasks[t].updates, nw)

\* CancelledError is thrown into a task that async_stop cancelled, at the
\* await where it is suspended
CancelDelivered(t) ==
  \E nw \in ClockReadings :
    /\ tasks[t].cancelReq
    /\ CASE tasks[t].pc = "created" ->
              /\ tasks' = [tasks EXCEPT ![t] = IdleTask]
              /\ ev' = EvNone("step")
              /\ UNCHANGED <<hassState, deviceType, hostVars,
                             connection_in_progress, lockHolder, lockWaiters,
                             sessions, device, last_update_success, data,
                             last_poll_time, hist, frame>>
         [] tasks[t].pc = "waitlock" ->
              /\ tasks' = [tasks EXCEPT ![t] = IdleTask]
              /\ lockWaiters' = RemoveAt(lockWaiters, t)
              /\ ev' = EvNone("step")
              /\ UNCHANGED <<hassState, deviceType, hostVars,
                             connection_in_progress, lockHolder, sessions,
                             device, last_update_success, data, last_poll_time,
                             hist, frame>>
         [] tasks[t].pc \in {"connect", "disconnect"} ->
              FinishCycle(t, "cancelled", device, last_update_success, data,
                          tasks[t].updates, nw)
         [] OTHER ->
              /\ tasks' = [tasks EXCEPT ![t].pc = "disconnect",
                                        ![t].result = "cancelled",
                                        ![t].cancelReq = FALSE]
              /\ ev' = EvNone("step")
              /\ UNCHANGED <<hassState, deviceType, hostVars,
                             connection_in_progress, lockHolder, lockWaiters,
                             sessions, device, last_update_success, data,
                             last_poll_time, hist, frame>>

(* ----------------------- async_start / async_stop --------------------- *)
\* async_start: subscribes to advertisements (super().async_start()), arms
\* the interval timer and creates the task of the initial refresh
AsyncStart(t) ==
  /\ phase = "constructed"
  /\ FreeSlot(t)
  /\ phase' = "started"
  /\ refreshTask' = t
  /\ tasks' = [tasks EXCEPT ![t] =
                 [IdleTask EXCEPT !.pc = "created", !.entry = "initial"]]
  /\ ev' = EvNone("step")
  /\ UNCHANGED <<hassState, deviceType, listeners, connection_in_progress,
                 lockHolder, lockWaiters, sessions, device,
                 last_update_success, data, last_poll_time, hist, frame>>

AsyncStopKeepsListeners ==
  /\ phase = "started"
  /\ connection_in_progress' = FALSE
  /\ phase' = "stopped"
  /\ refreshTask' = 0
  /\ tasks' = IF refreshTask # 0
              THEN [tasks EXCEPT ![refreshTask].cancelReq = TRUE]
              ELSE tasks
  /\ listeners' = listeners
  /\ ev' = [EvNone("stop") EXCEPT !.dropped = listeners]
  /\ UNCHANGED <<hassState, deviceType, lockHolder, lockWaiters, sessions,
                 device, last_update_success, data, last_poll_time, hist, frame>>

\* async_stop: clears the flag, cancels the timer and the pending initial
\* refresh, drops the listeners (self._listeners = []; ev.dropped records
\* the callbacks that were registered)
AsyncStop ==
  /\ phase = "started"
  /\ connection_in_progress' = FALSE
  /\ phase' = "stopped"
  /\ refreshTask' = 0
  /\ tasks' = IF refreshTask # 0
              THEN [tasks EXCEPT ![refreshTask].cancelReq = TRUE]
              ELSE tasks
  /\ listeners' = <<>>
  /\ ev' = [EvNone("stop") EXCEPT !.dropped = listeners]
  /\ UNCHANGED <<hassState, deviceType, lockHolder, lockWaiters, sessions,
                 device, last_update_success, data, last_poll_time, hist, frame>>

(* --------------------------- specification ---------------------------- *)
IoOutcomes == {"ok", "bleak_error", "error"}

Next ==
  \/ HassStateChange
  \/ \E l \in Listeners : AsyncAddListener(l)
  \/ \E l \in Listeners : RemoveListener(l)
  \/ \E t \in Tasks : AsyncStart(t)
  \/ AsyncStop
  \/ \E t \in Tasks, si \in BOOLEAN : ManualRefresh(t, si)
  \/ \E t \in Tasks, si \in BOOLEAN : HandleRefreshInterval(t, si)
  \/ \E t \in Tasks, si \in BOOLEAN : InitialRefreshRun(t, si)
  \/ \E t \in Tasks, conn \in BOOLEAN, lp \in {None} \cup Times :
       AdvertisementReceived(t, conn, lp)
  \/ \E t \in Tasks : AsyncPoll(t)
  \/ \E t \in Tasks : LockAcquired(t)
  \/ \E t \in Tasks : CancelDelivered(t)
  \/ \E t \in Tasks, o \in IoOutcomes : EstablishConnection(t, o)
  \/ \E t \in Tasks, o \in IoOutcomes : ShuntStartNotify(t, o)
  \/ \E t \in Tasks : ShuntTrigger(t)
  \/ \E t \in Tasks, o \in {"notified", "timeout"} :
       ShuntWaitNotification(t, o)
  \/ \E t \in Tasks, o \in {"ok", "bleak_error"}, m \in Metrics :
       ShuntStopNotify(t, o, m)
  \/ \E t \in Tasks : ShuntDisconnect(t)
  \/ \E t \in Tasks, o \in {"ok", "error"} : ModbusStartNotify(t, o)
  \/ \E t \in Tasks, o \in {"ok", "error"} : ModbusWrite(t, o)
  \/ \E t \in Tasks, o \in {"timeout", "parsed", "unparsed"},
        m \in Metrics \ {0} :
       ModbusResponse(t, o, m)
  \/ \E t \in Tasks, o \in {"ok", "error"} : ModbusStopNotify(t, o)
  \/ \E t \in Tasks, o \in {"ok", "error"} : ModbusDisconnect(t, o)

Spec == Init /\ [][Next]_vars

(* ------------- the device alone: update_availability calls ------------ *)
InitDevice ==
  /\ hassState = "running"
  /\ deviceType = "controller"
  /\ phase = "constructed"
  /\ refreshTask = 0
  /\ listeners = <<>>
  /\ connection_in_progress = FALSE
  /\ lockHolder = 0
  /\ lockWaiters = <<>>
  /\ sessions = {}
  /\ device = NewDevice
  /\ last_update_success = TRUE
  /\ data = 0
  /\ last_poll_time = None
  /\ tasks = [t \in Tasks |-> IdleTask]
  /\ ev = EvNone("init")
  /\ hist = <<>>
  /\ frame = NoFrame

\* device.update_availability(success, error)
CallUpdateAvailability(success) ==
  \E nw \in LaterReadings :
    /\ Len(hist) < MaxCalls
    /\ device' = UpdateAvailability(device, success, nw)
    /\ hist' = Append(hist, success)
    /\ ev' = EvNone("update_availability")
    /\ UNCHANGED <<hassState, deviceType, hostVars, connection_in_progress,
                   lockHolder, lockWaiters, sessions, last_update_success, data,
                   last_poll_time, tasks, frame>>

\* device.should_retry_connection is read
ReadShouldRetryConnection ==
  \E nw \in LaterReadings :
    /\ device' = ShouldRetryConnection(device, nw).dev
    /\ ev' = [EvNone("should_retry_connection") EXCEPT
                !.ret = ShouldRetryConnection(device, nw).ret]
    /\ UNCHANGED <<hassState, deviceType, hostVars, connection_in_progress,
                   lockHolder, lockWaiters, sessions, last_update_success, data,
                   last_poll_time, tasks, hist, frame>>

NextDevice ==
  \/ \E success \in BOOLEAN : CallUpdateAvailability(success)
  \/ ReadShouldRetryConnection

SpecDevice == InitDevice /\ [][NextDevice]_vars

(* ====================================================================== *)
(*      _read_modbus_device step by step: one exchange, any metrics before *)
(* ====================================================================== *)
\* COMMANDS: the word count of every command (the third entry of its tuple)
WORD_COUNT ==
  [device_info |-> 8, device_id |-> 1, battery |-> 1, pv |-> 34]

\* expected_len = 3 + word_count * 2 + 2
ExpectedLen(cmd_name) == 3 + WORD_COUNT[cmd_name] * 2 + 2

\* a dict without keys
NoMetrics == [k \in {} |-> 0]

\* the keys and values RenogyParser.parse can return for a response
MetricKeys == {"battery_voltage", "pv_power"}
MetricValues == 0..NumReadings
ParseResults ==
  UNION {[K -> MetricValues] : K \in (SUBSET MetricKeys) \ {{}}}

DictUpdateKeepsOld(old, new) == old @@ new

\* dict.update: the keys of new replace those of old
DictUpdate(old, new) == new @@ old

\* the sizes of the notifications the device sends
ChunkSizes == {SmallChunk, LargeChunk}

\* key-overwrite merge of two metric mappings
KeyOverwrite(old, new) ==
  [k \in DOMAIN old \cup DOMAIN new |->
     IF k \in DOMAIN new THEN new[k] ELSE old[k]]

\* the locals of _read_modbus_device, and a record of what the exchange
\* did: written (the commands written), arrived (the bytes that arrived
\* since the loop last reached its head), timed_out (a command timed out),
\* parsed_ok (a command was parsed), except_taken (an except clause of the
\* try block ran) and expected (the metrics before the exchange overwritten, key
\* by key, by every parse result of the exchange)
\* a local that holds a bool: "True" or "False" ("unbound" before its
\* first assignment)
PyBool(b) == IF b THEN "True" ELSE "False"

NewFrame ==
  [pc |-> "connect", cmd |-> 0, notification_data |-> <<>>,
   notification_event |-> FALSE, any_command_succeeded |-> FALSE,
   success |-> "unbound", error |-> "unbound", final_error |-> "none",
   returned |-> "none",
   written |-> <<>>, arrived |-> <<>>, origin |-> <<>>,
   timed_out |-> FALSE, parsed_ok |-> FALSE, except_taken |-> FALSE,
   expected |-> device.parsed_data]

Table == IF deviceType \in DOMAIN COMMANDS THEN COMMANDS[deviceType] ELSE <<>>

CurrentCmd == Table[frame.cmd]

modbusFixed ==
  <<hassState, deviceType, hostVars, connection_in_progress, lockHolder,
    lockWaiters, sessions, last_poll_time, tasks>>

\* the last step: for "update_parsed_data", the command, the response
\* handed over (result_data) and the bytes that had arrived for it; for
\* "timeout", the command and the bytes that had arrived for it
MbEv(op, cmd, result_data, arrived) ==
  [op |-> op, cmd |-> cmd, result_data |-> result_data, arrived |-> arrived]

AllMetrics ==
  UNION {[K -> MetricValues] : K \in SUBSET MetricKeys}

InitModbus ==
  /\ hassState = "running"
  /\ deviceType \in {"controller", "battery"}
  /\ phase = "started"
  /\ refreshTask = 0
  /\ listeners = <<>>
  /\ connection_in_progress = FALSE
  /\ lockHolder = 0
  /\ lockWaiters = <<>>
  /\ sessions = {}
  /\ \E m \in AllMetrics : device = [NewDevice EXCEPT !.parsed_data = m]
  /\ last_update_success = TRUE
  /\ data \in {NoMetrics, device.parsed_data}
  /\ last_poll_time = None
  /\ tasks = [t \in Tasks |-> IdleTask]
  /\ ev = MbEv("init", 0, <<>>, <<>>)
  /\ hist = <<>>
  /\ frame = [NewFrame EXCEPT !.pc = "idle"]

\* _read_modbus_device is entered
MbEnter ==
  /\ frame.pc = "idle"
  /\ frame' = NewFrame
  /\ ev' = MbEv("step", 0, <<>>, <<>>)
  /\ hist' = <<>>
  /\ UNCHANGED <<modbusFixed, device, last_update_success, data>>

\* the exchange returns success (a bool) or an exception leaves it
MbReturn(f, r) == [f EXCEPT !.pc = "done", !.returned = r]

\* client = await establish_connection(...)
MbConnect(outcome) ==
  /\ frame.pc = "connect"
  /\ IF outcome = "ok"
     THEN /\ frame' = [frame EXCEPT !.pc = "subscribe"]
          /\ UNCHANGED <<device, last_update_success, hist>>
     ELSE \E nw \in ClockReadings :
          /\ device.failure_count < MaxFailCount
          /\ device' = UpdateAvailability(device, FALSE, nw)
          /\ hist' = Append(hist, FALSE)
          /\ last_update_success' = FALSE
          /\ frame' = MbReturn(frame, "failure")
  /\ UNCHANGED <<modbusFixed, data>>
  /\ ev' = MbEv("step", 0, <<>>, <<>>)

\* the head of the for loop for the command after frame.cmd:
\* notification_data.clear(), notification_event.clear(), then the request
\* is built and write_gatt_char awaited; after the last command the loop
\* ends and stop_notify is awaited
NextCommandKeepsBuffer(f) ==
  IF f.cmd = Len(Table)
  THEN [f EXCEPT !.pc = "unsub"]
  ELSE [f EXCEPT !.pc = "write", !.cmd = @ + 1, !.arrived = <<>>,
                 !.origin = <<>>]

NextCommand(f) ==
  IF f.cmd = Len(Table)
  THEN [f EXCEPT !.pc = "unsub"]
  ELSE [f EXCEPT !.pc = "write", !.cmd = @ + 1, !.notification_data = <<>>,
                 !.notification_event = FALSE, !.arrived = <<>>,
                 !.origin = <<>>]

MbExceptKeepsSuccess(f) ==
  [f EXCEPT !.pc = "disconnect", !.error = "caught",
            !.success = PyBool(f.any_command_succeeded),
            !.except_taken = TRUE]

\* an exception in the try block: error = e, success = False, then finally
MbExcept(f) ==
  [f EXCEPT !.pc = "disconnect", !.error = "caught", !.success = "False",
            !.except_taken = TRUE]

\* await client.start_notify(notify_uuid, notification_handler), then the
\* for loop starts (COMMANDS[self.device_type] raises KeyError for a device
\* type without a table)
MbStartNotify(outcome) ==
  /\ frame.pc = "subscribe"
  /\ frame' = IF outcome = "ok" /\ deviceType \in DOMAIN COMMANDS
              THEN NextCommand(frame)
              ELSE MbExcept(frame)
  /\ UNCHANGED <<modbusFixed, device, last_update_success, data, hist>>
  /\ ev' = MbEv("step", 0, <<>>, <<>>)

\* notification_handler(sender, data): n bytes arrive while the coroutine
\* is suspended; every byte is tagged with the command during whose turn
\* it arrived and its position since the buffer was cleared.  origin is
\* not a variable of the program: it records the command the device sent
\* each byte in reply to, the command of this turn or, right after a wait
\* timed out, the command whose response the device still owes
MbNotification(n) ==
  /\ frame.pc \in {"write", "wait"}
  /\ Len(frame.notification_data) < ExpectedLen(CurrentCmd)
  /\ \E reply \in {frame.cmd} \cup
                   (IF ev.op = "timeout" THEN {ev.cmd} ELSE {}) :
       LET chunk == [i \in 1..n |-> <<frame.cmd, Len(frame.arrived) + i>>]
       IN frame' = [frame EXCEPT !.notification_data = @ \o chunk,
                                 !.notification_event = TRUE,
                                 !.arrived = @ \o chunk,
                                 !.origin = @ \o [i \in 1..n |-> reply]]
  /\ UNCHANGED <<modbusFixed, device, last_update_success, data, hist>>
  /\ ev' = MbEv("step", 0, <<>>, <<>>)

ResultDataWholeBuffer(f) == f.notification_data

\* result_data = bytes(notification_data[:expected_len])
ResultData(f) ==
  SubSeq(f.notification_data, 1, ExpectedLen(Table[f.cmd]))

\* The response is complete: it is sliced and handed to
\* device.update_parsed_data, which merges what RenogyParser.parse returned
\* (parsed; NoMetrics: nothing parsed, update_parsed_data returns False);
\* then the loop goes on
MbParse(f, parsed) ==
  /\ frame' = NextCommand(
       [f EXCEPT !.any_command_succeeded = @ \/ parsed # NoMetrics,
                 !.parsed_ok = @ \/ parsed # NoMetrics,
                 !.expected = IF parsed = NoMetrics THEN @
                              ELSE KeyOverwrite(@, parsed)])
  /\ device' = IF parsed = NoMetrics THEN device
               ELSE [device EXCEPT
                       !.parsed_data = DictUpdate(@, parsed)]
  /\ ev' = MbEv("update_parsed_data", f.cmd, ResultData(f), f.arrived)

\* the "while len(notification_data) < expected_len" loop is evaluated:
\* the coroutine suspends in wait_for, or the response is parsed
MbAwaitResponse(f, parsed) ==
  IF Len(f.notification_data) < ExpectedLen(Table[f.cmd])
  THEN /\ frame' = [f EXCEPT !.pc = "wait"]
       /\ ev' = MbEv("step", 0, <<>>, <<>>)
       /\ UNCHANGED device
  ELSE MbParse(f, parsed)

\* await client.write_gatt_char(RENOGY_WRITE_CHAR_UUID, modbus_request)
MbWrite(outcome, parsed) ==
  /\ frame.pc = "write"
  /\ IF outcome = "ok"
     THEN MbAwaitResponse(
            [frame EXCEPT !.written = Append(@, CurrentCmd)], parsed)
     ELSE /\ parsed = NoMetrics
          /\ frame' = MbExcept(frame)
          /\ ev' = MbEv("step", 0, <<>>, <<>>)
          /\ UNCHANGED device
  /\ UNCHANGED <<modbusFixed, last_update_success, data, hist>>

\* wait_for(notification_event.wait(), remaining) returns: the event was
\* set by a notification
MbWake(parsed) ==
  /\ frame.pc = "wait"
  /\ frame.notification_event
  /\ MbAwaitResponse([frame EXCEPT !.notification_event = FALSE], parsed)
  /\ UNCHANGED <<modbusFixed, last_update_success, data, hist>>

AfterTimeoutLoopEnds(f) == [f EXCEPT !.pc = "unsub", !.timed_out = TRUE]

\* except asyncio.TimeoutError: the timeout is logged, then "continue"
AfterTimeout(f) == NextCommand([f EXCEPT !.timed_out = TRUE])

\* MAX_NOTIFICATION_WAIT_TIME elapses before the response is complete:
\* asyncio.TimeoutError, logged, continue with the next command
MbTimeout ==
  /\ frame.pc = "wait"
  /\ Len(frame.notification_data) < ExpectedLen(CurrentCmd)
  /\ frame' = AfterTimeout(frame)
  /\ UNCHANGED <<modbusFixed, device, last_update_success, data, hist>>
  /\ ev' = MbEv("timeout", frame.cmd, <<>>, frame.arrived)

\* await client.stop_notify(notify_uuid); success = any_command_succeeded
MbStopNotify(outcome) ==
  /\ frame.pc = "unsub"
  /\ frame' = IF outcome = "ok"
              THEN [frame EXCEPT
                      !.pc = "disconnect",
                      !.success = PyBool(frame.any_command_succeeded),
                      !.error = IF frame.any_command_succeeded THEN @
                                ELSE "no_commands"]
              ELSE MbExcept(frame)
  /\ UNCHANGED <<modbusFixed, device, last_update_success, data, hist>>
  /\ ev' = MbEv("step", 0, <<>>, <<>>)

ErrorAfterDisconnectReplaced(error) == "disconnect"

\* except Exception as e (client.disconnect() raised): "if error is None:
\* error = e", for a local error that is bound; the error of the exchange
\* is "caught" (an except clause of the try block bound it) or
\* "no_commands" (Exception("No commands completed successfully"))
ErrorAfterDisconnect(error) ==
  IF error = "None" THEN "disconnect" ELSE error

\* finally: await client.disconnect() (outcome "error": it raises); then
\* final_success and final_error are read with locals().get,
\* update_availability is called, last_update_success and self.data are
\* set and success is returned
MbDisconnect(outcome) ==
  /\ frame.pc = "disconnect"
  /\ IF outcome = "error" /\ frame.error = "unbound"
     THEN \* "if error is None" reads the unbound local: UnboundLocalError
          /\ frame' = MbReturn(frame, "raised")
          /\ UNCHANGED <<device, last_update_success, data, hist>>
     ELSE \E nw \in ClockReadings :
          LET error == IF outcome = "error"
                       THEN ErrorAfterDisconnect(frame.error)
                       ELSE frame.error
              \* final_success = locals().get('success', False)
              final_success == frame.success = "True"
              \* final_error = locals().get('error', Exception("Unknown
              \* error in _read_modbus_device"))
              final_error == IF error = "unbound" THEN "unknown" ELSE error
          IN  /\ ~final_success => device.failure_count < MaxFailCount
              /\ device' = UpdateAvailability(device, final_success, nw)
              /\ hist' = Append(hist, final_success)
              /\ last_update_success' = final_success
              /\ data' = IF final_success /\ device.parsed_data # NoMetrics
                         THEN device.parsed_data ELSE data
              /\ frame' = [MbReturn(frame, IF final_success THEN "success"
                                           ELSE "failure")
                             EXCEPT !.error = error,
                                    !.final_error = final_error]
  /\ UNCHANGED modbusFixed
  /\ ev' = MbEv(IF outcome = "ok" THEN "disconnect" ELSE "disconnect_error",
                0, <<>>, <<>>)

NextModbus ==
  \/ MbEnter
  \/ \E o \in {"ok", "error"} : MbConnect(o)
  \/ \E o \in {"ok", "error"} : MbStartNotify(o)
  \/ \E n \in ChunkSizes : MbNotification(n)
  \/ \E o \in {"ok", "error"}, parsed \in ParseResults \cup {NoMetrics} :
       MbWrite(o, parsed)
  \/ \E parsed \in ParseResults \cup {NoMetrics} : MbWake(parsed)
  \/ MbTimeout
  \/ \E o \in {"ok", "error"} : MbStopNotify(o)
  \/ \E o \in {"ok", "error"} : MbDisconnect(o)

SpecModbus == InitModbus /\ [][NextModbus]_vars

\* The event loop resumes the coroutine when a wait_for ends: at the
\* deadline (MAX_NOTIFICATION_WAIT_TIME) or after notification_event was
\* set.  establish_connection, start_notify, write_gatt_char, stop_notify
\* and disconnect are awaited without wait_for: they end when the transport
\* ends them, so no fairness is assumed for them.
SpecModbusLive ==
  /\ InitModbus
  /\ [][NextModbus]_vars
  /\ WF_<<frame.pc, frame.notification_event>>(MbTimeout)
  /\ WF_<<frame.pc, frame.notification_event>>(
       \E parsed \in ParseResults \cup {NoMetrics} : MbWake(parsed))

(* ====================================================================== *)
(*                              properties                                *)
(* ====================================================================== *)
ExchangeTasks == {t \in Tasks : InExchange(t)}

\* the number of failures at the end of a sequence of update_availability
\* calls
TrailingFailures(h) ==
  LET S == {k \in 0..Len(h) : \A i \in (Len(h) - k + 1)..Len(h) : ~h[i]}
  IN  CHOOSE k \in S : \A j \in S : j <= k

\* C1: at any time at most one task is inside the connect -> exchange ->
\* disconnect sequence and at most one transport session is open; the task
\* inside the sequence, and the owner of the open session, holds the lock.
C1_OneExchangeAtATime ==
  /\ Cardinality(ExchangeTasks) <= 1
  /\ Cardinality(sessions) <= 1
  /\ \A t \in ExchangeTasks \cup sessions : lockHolder = t

\* C1 witness: a second request waits on the lock while the first one has
\* its session open.
C1_SecondRequestHeldBack ==
  \E t \in Tasks, u \in Tasks :
    /\ t \in sessions
    /\ InExchange(t)
    /\ tasks[u].pc = "waitlock"

\* C2: a poll or refresh request that arrives while an exchange is in flight
\* is dropped: no task ever waits on the connection lock.
C2_NoRequestWaitsOnLock ==
  \A t \in Tasks : tasks[t].pc # "waitlock"

\* C3: a call of async_request_refresh made while an exchange is in flight
\* changes nothing: no task is started or queued, no session is opened, no
\* listener is called, and last_update_success, data, last_poll_time and the
\* device stay as they were.
C3_RefreshInFlightIsNoOp ==
  [][(ev'.op = "refresh" /\ ExchangeTasks # {}) =>
       /\ UNCHANGED <<connection_in_progress, lockHolder, lockWaiters,
                      sessions, device, last_update_success, data,
                      last_poll_time>>
       /\ \A t \in Tasks : tasks'[t] \in {tasks[t], IdleTask}]_vars

\* C4: after any sequence of update_availability calls the device is
\* unavailable exactly when the last max_failures or more calls all failed,
\* and failure_count is the number of failures since the last success (so
\* one success resets it to 0 and makes the device available again).
C4_AvailabilityHysteresis ==
  /\ ~IsAvailable(device) <=> TrailingFailures(hist) >= max_failures
  /\ device.failure_count = TrailingFailures(hist)

\* C4 witness: a device that was unavailable after max_failures failures is
\* available again after one success.
C4_RestoredBySuccess ==
  /\ Len(hist) > max_failures
  /\ hist[Len(hist)]
  /\ TrailingFailures(SubSeq(hist, 1, Len(hist) - 1)) >= max_failures
  /\ IsAvailable(device)
  /\ device.failure_count = 0

\* C5: is_available equals failure_count < max_failures, and the stored
\* available flag equals it too.
C5_AvailableIsFunctionOfCount ==
  /\ IsAvailable(device) = (device.failure_count < max_failures)
  /\ device.available = (device.failure_count < max_failures)

\* C5 witness: update_availability has just counted the failure that
\* reaches max_failures and cleared the flag.
C5_FlagClearedAtThreshold ==
  /\ ev.op = "update_availability"
  /\ device.failure_count = max_failures
  /\ ~device.available

\* C6: a poll cycle whose exchange returned (success or failure) made
\* exactly one update_availability call, with the outcome of the exchange.
C6_OneUpdatePerExchange ==
  (ev.op = "cycle_end" /\ ev.outcome \in {"success", "failure"})
    => ev.updates = <<ev.outcome = "success">>

\* C7: listeners are called only at the end of a poll cycle whose exchange
\* succeeded.
C7_ListenersOnlyOnSuccess ==
  (ev.op = "cycle_end" /\ ev.fired # <<>>) => ev.outcome = "success"

\* C8: in the step in which a task leaves the exchange (by success, failure,
\* timeout, exception or cancellation) the lock is released and
\* _connection_in_progress is false.
C8_IdleAfterExchange ==
  [][\A t \in Tasks :
       (InExchange(t) /\ tasks'[t].pc \notin ExchangePcs)
         => (lockHolder' = 0 /\ ~connection_in_progress')]_vars

\* C8 witness: an exchange was left by an exception, and the lock is free
\* and the flag false.
C8_IdleAfterException ==
  /\ ev.op = "cycle_end"
  /\ ev.outcome = "raised"
  /\ lockHolder = 0
  /\ ~connection_in_progress

\* C9: _needs_poll returns true exactly when the host is running, the
\* transport has a connectable device, no exchange is in flight, and
\* last_poll is None or now - last_poll >= scan_interval.
C9_NeedsPollIffAllFour ==
  ev.op = "needs_poll" =>
    (ev.ret <=> /\ hassState = "running"
                /\ ev.conn
                /\ ExchangeTasks = {}
                /\ (ev.lp = None \/ ev.nw - ev.lp >= ScanInterval))

\* C10 as stated: no task enters the exchange while the host is not running.
C10_ExchangeOnlyWhileRunning ==
  [][\A t \in Tasks :
       (~InExchange(t) /\ tasks'[t].pc \in ExchangePcs)
         => hassState = "running"]_vars

\* C10 amended: a scheduled poll is requested only while the host is
\* running, and the interval timer starts a poll cycle only while the host
\* is starting or running (the initial refresh and a manual refresh are not
\* gated by the host state).
C10_GatedEntryPoints ==
  [][\A t \in Tasks :
       /\ (tasks[t].pc = "idle" /\ tasks'[t].pc = "scheduled")
            => hassState = "running"
       /\ (tasks[t].pc = "idle" /\ tasks'[t].pc # "idle"
             /\ tasks'[t].entry = "interval")
            => hassState \in {"starting", "running"}]_vars

\* C10 witness: the interval timer started an exchange while the host was
\* still starting.
C10_IntervalExchangeWhileStarting ==
  \E t \in Tasks :
    /\ tasks[t].entry = "interval"
    /\ tasks[t].pc = "connect"
    /\ hassState = "starting"

(***************************************************************************)
(* Properties of the Modbus exchange (specification SpecModbus)            *)
(***************************************************************************)

Returned == frame.pc = "done" /\ frame.returned \in {"success", "failure"}

\* C11 as stated: a Modbus exchange that has ended reported success if and
\* only if at least one command of the cycle was assembled and parsed,
\* whatever happened to the other commands.
C11_SuccessIffAnyCommand ==
  frame.pc = "done" => (frame.returned = "success" <=> frame.parsed_ok)

\* C11 amended: a Modbus exchange that returns reports success, to the
\* caller, to update_availability and in last_update_success, if and only
\* if at least one command was assembled and parsed and no except clause
\* of the try block ran; timeouts and parse failures of the other commands
\* do not matter.
C11_SuccessIffAnyCommandAndNoException ==
  Returned =>
    /\ frame.returned = "success" <=>
          frame.parsed_ok /\ ~frame.except_taken
    /\ last_update_success = (frame.returned = "success")
    /\ hist = <<frame.returned = "success">>

\* an exchange returned success although another command timed out
C11_SuccessDespiteTimeout ==
  Returned /\ frame.returned = "success" /\ frame.timed_out
  /\ Len(frame.written) = Len(Table)

\* C12: in a Modbus exchange the commands written so far are always the
\* first commands of the device kind's table, in table order and each
\* once, and once the loop is over without an exception every command of
\* the table has been written, also after a response timeout.
C12_TimeoutDoesNotAbort ==
  /\ Len(frame.written) <= Len(Table)
  /\ frame.written = SubSeq(Table, 1, Len(frame.written))
  /\ frame.pc # "idle" /\ frame.pc # "connect" =>
        /\ frame.pc = "write" => Len(frame.written) = frame.cmd - 1
        /\ frame.pc = "wait" => Len(frame.written) = frame.cmd
        /\ ~frame.except_taken /\ frame.pc \in {"unsub", "disconnect"}
              => frame.written = Table

\* the loop is over, a command timed out and all four commands were written
C12_AllWrittenAfterTimeout ==
  /\ frame.pc = "unsub" /\ frame.timed_out
  /\ frame.written = Table /\ Len(Table) = 4

\* C13: during and after a Modbus exchange the device's metrics are the
\* metrics it had before the exchange overwritten, key by key and in
\* command order, by the decoded values of every command that succeeded,
\* whether or not other commands timed out, failed to parse or raised.
C13_MetricsOfEverySucceededCommand ==
  frame.pc # "idle" => device.parsed_data = frame.expected

\* an exchange in which one command timed out and another was parsed has
\* ended in failure, and the device holds both metrics
C13_PartialCycleKeepsMetrics ==
  /\ frame.pc = "done" /\ frame.returned = "failure"
  /\ frame.timed_out /\ frame.parsed_ok
  /\ DOMAIN device.parsed_data = MetricKeys

\* C14: when a response is handed to update_parsed_data, at least
\* L = 3 + 2*word_count + 2 bytes had arrived since the buffer was cleared
\* and the response is exactly the first L of them, none of them a byte of
\* an earlier command; a wait that ends with L bytes in the buffer hands
\* the response over; a command that times out had fewer than L bytes and
\* nothing of it reaches the parser or the metrics.
C14_ResponseAssembly ==
  [][/\ ev'.op = "update_parsed_data" =>
          LET L == ExpectedLen(Table[ev'.cmd])
          IN /\ Len(ev'.arrived) >= L
             /\ ev'.result_data = [i \in 1..L |-> ev'.arrived[i]]
             /\ \A i \in 1..L : ev'.result_data[i] = <<ev'.cmd, i>>
     /\ frame.pc = "wait"
          /\ Len(frame.notification_data) >= ExpectedLen(CurrentCmd)
          => ev'.op = "update_parsed_data" /\ ev'.cmd = frame.cmd
     /\ ev'.op = "timeout" =>
          /\ Len(ev'.arrived) < ExpectedLen(Table[ev'.cmd])
          /\ device' = device
          /\ frame'.any_command_succeeded = frame.any_command_succeeded
    ]_vars

\* the response to the second command is handed over, cut out of more
\* bytes than its length
C14_SurplusDiscarded ==
  /\ ev.op = "update_parsed_data" /\ ev.cmd = 2
  /\ Len(ev.arrived) > Len(ev.result_data)
  /\ Len(ev.result_data) = 7

(***************************************************************************)
(*      parser.py: the SmartShunt packet decoders, and the part of the     *)
(*      shunt exchange that decodes and stores (specification SpecParser)  *)
(***************************************************************************)
\* A packet is a sequence of bytes (0..255).  Decoded numbers are kept as
\* integers in the unit of their last decimal: bus_voltage, shunt_drop,
\* current, battery_voltage and discharge_amps in thousandths; consumed_ah,
\* remaining_time_h, discharge_duration_h, starter_volts and power_watts in
\* hundredths; state_of_charge, consumed_Ah and temperature_C in tenths;
\* temperature and extra_flags in units.  A value is <<n>> for the number n
\* and <<>> for Python's None.

Some(n) == <<n>>
NoValue == <<>>

\* bs[a:b]
Slice(bs, a, b) ==
  IF a >= Len(bs) \/ a >= b THEN <<>>
  ELSE SubSeq(bs, a + 1, IF b < Len(bs) THEN b ELSE Len(bs))

RECURSIVE FromBytesLittle(_)
\* int.from_bytes(bs, "little")
FromBytesLittle(bs) ==
  IF bs = <<>> THEN 0 ELSE bs[1] + 256 * FromBytesLittle(Tail(bs))

FromBytesBigLowFirst(bs) == FromBytesLittle(bs)

RECURSIVE FromBytesBig(_)
\* int.from_bytes(bs, "big")
FromBytesBig(bs) ==
  IF bs = <<>> THEN 0
  ELSE FromBytesBig(SubSeq(bs, 1, Len(bs) - 1)) * 256 + bs[Len(bs)]

\* int.from_bytes(..., signed=True): two's complement of the n bytes read
Signed(raw, n) ==
  IF n > 0 /\ raw >= (256 ^ n) \div 2 THEN raw - 256 ^ n ELSE raw

\* round(n / d) to the nearest integer, a tie to the even one
RoundDiv(n, d) ==
  LET q == n \div d
      r == n % d
  IN IF 2 * r < d THEN q
     ELSE IF 2 * r > d THEN q + 1
     ELSE IF q % 2 = 0 THEN q ELSE q + 1

\* round(mins / 60, 2), in hundredths of an hour
HoursOfMinutes(mins) == (mins \div 60) * 100 + RoundDiv((mins % 60) * 100, 60)

\* _bytes_to_int(bs, offset, length, signed=..., scale=...): None when bs
\* is too short, else the big-endian integer times scale rounded to two
\* decimals; div brings the raw integer to hundredths or to the unit of
\* the last decimal that scale leaves (1 for scale 1.0 and 0.1, 10 for
\* scale 0.001)
BytesToInt(bs, offset, length, signed, div) ==
  IF Len(bs) < offset + length THEN NoValue
  ELSE LET b == Slice(bs, offset, offset + length)
           raw == FromBytesBig(b)
       IN Some(RoundDiv(IF signed THEN Signed(raw, Len(b)) ELSE raw, div))

\* max(0, min(soc, 100))
Clamp(soc) == IF soc > 100 THEN 100 ELSE IF soc < 0 THEN 0 ELSE soc

\* a decoder returns metrics or raises ValueError(error)
Ok(metrics) == [error |-> "none", metrics |-> metrics]
Raise(error) == [error |-> error, metrics |-> NoMetrics]

\* parse_shunt_packet(data)
parse_shunt_packet(packet) ==
  IF Len(packet) < 12 THEN Raise("packet too short")
  ELSE LET current_b == Slice(packet, 6, 8)
       IN Ok([bus_voltage |-> Some(FromBytesBig(Slice(packet, 2, 4))),
              shunt_drop |-> Some(FromBytesBig(Slice(packet, 4, 6))),
              current |-> Some(Signed(FromBytesBig(current_b), Len(current_b))),
              consumed_ah |-> Some(FromBytesBig(Slice(packet, 8, 10))),
              state_of_charge |-> Some(Clamp(packet[11]) * 10),
              temperature |-> Some(packet[12] - 40),
              extra_flags |-> IF Len(packet) > 12 THEN Some(packet[13])
                              ELSE NoValue])

HexDigits ==
  <<"0", "1", "2", "3", "4", "5", "6", "7", "8", "9",
    "A", "B", "C", "D", "E", "F">>

\* f"0x{b:02X}"
Hex(b) == "0x" \o HexDigits[(b \div 16) + 1] \o HexDigits[(b % 16) + 1]

\* the code points str.strip() removes
Whitespace == (9..13) \cup (28..32)

RECURSIVE Strip(_)
Strip(text) ==
  IF text = <<>> THEN text
  ELSE IF text[1] \in Whitespace THEN Strip(Tail(text))
  ELSE IF text[Len(text)] \in Whitespace
       THEN Strip(SubSeq(text, 1, Len(text) - 1))
  ELSE text

\* payload.decode("ascii", errors="ignore").strip(), as code points
DecodeAscii(payload) == Strip(SelectSeq(payload, LAMBDA b : b < 128))

\* the 0x44 branch of parse_shunt_ble_packet
NumericMetrics(payload) ==
  IF Len(payload) < 11 THEN Raise("payload too short")
  ELSE LET bus_v == FromBytesBig(Slice(payload, 0, 2))
           curr_b == Slice(payload, 4, 6)
           curr_a == Signed(FromBytesBig(curr_b), Len(curr_b))
       IN Ok([packetType |-> "0x44",
              bus_voltage |-> Some(bus_v),
              shunt_drop |-> Some(FromBytesBig(Slice(payload, 2, 4))),
              current |-> Some(curr_a),
              consumed_ah |-> Some(FromBytesBig(Slice(payload, 6, 8))),
              state_of_charge |-> Some(Clamp(payload[9]) * 10),
              temperature |-> Some(payload[10] - 40),
              extra_flags |-> Some(payload[11]),
              power_watts |-> Some(RoundDiv(bus_v * curr_a, 10000))])

\* the group-tagged branch of parse_shunt_ble_packet
GroupMetrics(group_id, payload) ==
  LET tag == [packetType |-> Hex(group_id)]
      one(key, value) == Ok((key :> value) @@ tag)
  IN CASE group_id = 3 ->
            one("state_of_charge",
                Some(FromBytesLittle(Slice(payload, 3, 5))))
       [] group_id = 5 ->
            one("battery_voltage",
                Some(FromBytesLittle(Slice(payload, 3, 7))))
       [] group_id = 4 ->
            \* ("battery_voltage" in metrics is false: metrics is new)
            LET b == Slice(payload, 3, 6)
            IN one("discharge_amps", Some(Signed(FromBytesLittle(b), Len(b))))
       [] group_id = 2 ->
            LET mins == BytesToInt(payload, 3, 4, FALSE, 1)
            IN IF mins = NoValue THEN Ok(tag)
               ELSE one("remaining_time_h", Some(HoursOfMinutes(mins[1])))
       [] group_id = 11 ->
            one("consumed_Ah", BytesToInt(payload, 3, 4, FALSE, 1))
       [] group_id = 6 ->
            LET mins == BytesToInt(payload, 3, 2, FALSE, 1)
            IN IF mins = NoValue THEN Ok(tag)
               ELSE one("discharge_duration_h",
                        Some(HoursOfMinutes(mins[1])))
       [] group_id = 13 ->
            one("temperature_C", BytesToInt(payload, 3, 2, TRUE, 1))
       [] group_id = 7 ->
            one("starter_volts", BytesToInt(payload, 3, 4, FALSE, 10))
       [] OTHER -> Raise("Unsupported group id")

StatusPacketAccepted(packet) == FALSE

\* len(data) >= 2 and data[:2] == b"AT"
IsStatusPacket(packet) == Len(packet) >= 2 /\ packet[1] = 65 /\ packet[2] = 84

\* parse_shunt_ble_packet(data)
parse_shunt_ble_packet(packet) ==
  IF IsStatusPacket(packet) THEN Raise("status packet")
  ELSE IF Len(packet) < 4 THEN Raise("packet too short")
  ELSE IF packet[3] = 16
       THEN Ok([packetType |-> "0x10",
                model_id |-> DecodeAscii(Slice(packet, 3, Len(packet)))])
  ELSE IF packet[3] = 68 THEN NumericMetrics(Slice(packet, 3, Len(packet)))
  ELSE GroupMetrics(packet[4], Slice(packet, 4, Len(packet)))

\* result.get(key)
Get(result, key) == IF key \in DOMAIN result THEN result[key] ELSE NoValue

\* a or b: a unless it is None or zero
PyOr(a, b) == IF a = NoValue \/ a = Some(0) THEN b ELSE a

RECURSIVE MergePacketsStopsAtError(_, _)
MergePacketsStopsAtError(result, messages) ==
  IF messages = <<>> THEN result
  ELSE LET parsed == parse_shunt_ble_packet(Head(messages))
       IN IF parsed.error # "none" THEN result
          ELSE MergePacketsStopsAtError(
                 DictUpdate(result, parsed.metrics), Tail(messages))

RECURSIVE MergePackets(_, _)
\* the loop of parse_shunt_ble_messages and of _read_shunt_device: every
\* packet is decoded, a ValueError skips it, result.update(metrics)
MergePackets(result, messages) ==
  IF messages = <<>> THEN result
  ELSE LET parsed == parse_shunt_ble_packet(Head(messages))
       IN MergePackets(IF parsed.error # "none" THEN result
                       ELSE DictUpdate(result, parsed.metrics),
                       Tail(messages))

\* parse_shunt_ble_messages(messages)
parse_shunt_ble_messages(messages) ==
  LET result == MergePackets(NoMetrics, messages)
      bus_v == PyOr(Get(result, "battery_voltage"),
                    Get(result, "bus_voltage"))
      amps == PyOr(Get(result, "discharge_amps"), Get(result, "current"))
  IN IF bus_v # NoValue /\ amps # NoValue
     THEN ("power_watts" :> Some(RoundDiv(bus_v[1] * amps[1], 10000)))
            @@ result
     ELSE result

\* metrics.update(parse_shunt_packet(bytes(manu))) in _read_shunt_device
ManufacturerUpdate(metrics, manufacturer) ==
  DictUpdate(metrics, manufacturer)

\* _read_shunt_device from the end of the notification wait: the received
\* packets are decoded and merged, then the manufacturer packet of the
\* advertisement
ShuntMetrics(received_packets, manu) ==
  LET metrics == MergePackets(NoMetrics, received_packets)
      parsed == parse_shunt_packet(manu)
  IN IF parsed.error # "none" THEN metrics
     ELSE ManufacturerUpdate(metrics, parsed.metrics)

(* ----------------------------- the packets ----------------------------- *)
\* all the beginnings of a packet
Prefixes(packet) == {SubSeq(packet, 1, n) : n \in 0..Len(packet)}

\* test_parse_shunt_packet: 4C 00 2E E0 27 10 03 E8 00 FA 50 41 01
ManufacturerVector == <<76, 0, 46, 224, 39, 16, 3, 232, 0, 250, 80, 65, 1>>

\* manufacturer data: the test vector and its beginnings, a packet with a
\* negative current, a state of charge above 100 and no flags byte, and a
\* packet of zeros
ManufacturerPackets ==
  Prefixes(ManufacturerVector)
    \cup {<<76, 0, 255, 255, 0, 1, 255, 255, 0, 0, 200, 0>>,
          <<76, 0, 0, 0, 0, 0, 0, 0, 0, 0, 0, 0, 0>>}

\* the field bytes of a group-tagged packet
GroupFields ==
  {<<0, 0, 0, 0>>, <<60, 0, 0, 0>>, <<1, 2, 0, 0>>, <<40, 3, 0, 0>>}

\* a group-tagged packet as the tests build it: 00 01 0C, the group id,
\* three bytes, the field
GroupPacket(group_id, field) == <<0, 1, 12, group_id, 6, 6, 0>> \o field

GroupIds == {2, 3, 4, 5, 6, 7, 11, 13}

\* test_parse_shunt_ble_messages_merge
VoltageVector == <<0, 1, 12, 5, 6, 6, 0, 156, 52, 0, 0, 150, 55>>
ChargeVector == <<0, 1, 12, 3, 10, 6, 0, 49, 1, 155, 234>>

\* test_parse_shunt_ble_packet_numeric: AA 55 44 and the manufacturer fields
NumericVector ==
  <<170, 85, 68, 46, 224, 39, 16, 3, 232, 0, 250, 80, 65, 1>>

\* notification packets: group-tagged ones of every group and of two
\* unknown groups, with negative fields, cut short, the numeric and the
\* model packets, status lines ("AT" and then anything), and the "BW"
\* packet of the tests
NotificationPackets ==
  {GroupPacket(g, f) : g \in GroupIds \cup {1, 12}, f \in GroupFields}
    \cup {VoltageVector, ChargeVector, NumericVector}
    \cup {GroupPacket(4, <<255, 255, 255>>), GroupPacket(13, <<255, 246>>),
          GroupPacket(13, <<246, 255>>)}
    \cup {SubSeq(GroupPacket(g, <<60, 0, 0, 0>>), 1, n) :
            g \in GroupIds, n \in {4, 8}}
    \cup {<<>>, <<65>>, <<0, 1, 12>>, SubSeq(NumericVector, 1, 13),
          <<170, 85, 68, 0, 0, 0, 0, 255, 255, 0, 0, 0, 0, 0>>,
          <<0, 1, 16, 32, 82, 66, 84, 200, 32>>,
          <<66, 87, 1, 5, 0, 19, 136, 0>>}
    \cup {<<65, 84>> \o tail :
            tail \in {<<>>, <<43, 78, 77>>, SubSeq(VoltageVector, 3, 13),
                      SubSeq(NumericVector, 3, 14)}}

\* the packets the batches are made of
BatchPackets ==
  {VoltageVector, ChargeVector, NumericVector,
   GroupPacket(5, <<0, 0, 0, 0>>), GroupPacket(5, <<60, 0, 0, 0>>),
   GroupPacket(4, <<232, 3, 0, 0>>), GroupPacket(4, <<0, 0, 0, 0>>),
   GroupPacket(3, <<60, 0, 0, 0>>), GroupPacket(12, <<60, 0, 0, 0>>),
   <<170, 85, 68, 0, 0, 0, 0, 255, 255, 0, 0, 0, 0, 0>>,
   <<65, 84>> \o SubSeq(VoltageVector, 3, 13),
   <<65, 84>> \o SubSeq(NumericVector, 3, 14),
   <<0, 1, 12>>}

Batches == UNION {[1..n -> BatchPackets] : n \in 0..MaxMessages}

(* ------------------------------ SpecParser ----------------------------- *)
\* One call is made in a behaviour.  ev is the call: the function, its
\* arguments and what it returned
ParserEv(op, input, manu, result) ==
  [op |-> op, input |-> input, manu |-> manu, result |-> result]

InitParser ==
  /\ hassState = "running"
  /\ deviceType = SHUNT
  /\ phase = "started"
  /\ refreshTask = 0
  /\ listeners = <<>>
  /\ connection_in_progress = FALSE
  /\ lockHolder = 0
  /\ lockWaiters = <<>>
  /\ sessions = {}
  /\ device = [NewDevice EXCEPT !.parsed_data = NoMetrics]
  /\ last_update_success = TRUE
  /\ data = NoMetrics
  /\ last_poll_time = None
  /\ tasks = [t \in Tasks |-> IdleTask]
  /\ ev = ParserEv("init", <<>>, <<>>, Ok(NoMetrics))
  /\ hist = <<>>
  /\ frame = NoFrame

ParseShuntPacket(packet) ==
  /\ ev.op = "init"
  /\ ev' = ParserEv("parse_shunt_packet", packet, <<>>,
                    parse_shunt_packet(packet))
  /\ UNCHANGED <<modbusFixed, device, last_update_success, data, hist,
                 frame>>

ParseShuntBlePacket(packet) ==
  /\ ev.op = "init"
  /\ ev' = ParserEv("parse_shunt_ble_packet", packet, <<>>,
                    parse_shunt_ble_packet(packet))
  /\ UNCHANGED <<modbusFixed, device, last_update_success, data, hist,
                 frame>>

ParseShuntBleMessages(messages) ==
  /\ ev.op = "init"
  /\ ev' = ParserEv("parse_shunt_ble_messages", messages, <<>>,
                    Ok(parse_shunt_ble_messages(messages)))
  /\ UNCHANGED <<modbusFixed, device, last_update_success, data, hist,
                 frame>>

\* _read_shunt_device once the notification wait and stop_notify are over:
\* the metrics are decoded and stored, the exchange is a success
ReadShuntDeviceStore(received_packets, manu) ==
  /\ ev.op = "init"
  /\ received_packets # <<>>
  /\ LET metrics == ShuntMetrics(received_packets, manu)
     IN /\ \E nw \in ClockReadings :
             device' = UpdateAvailability(
                         [device EXCEPT !.parsed_data = metrics], TRUE, nw)
        /\ data' = metrics
        /\ ev' = ParserEv("_read_shunt_device", received_packets, manu,
                          Ok(metrics))
  /\ last_update_success' = TRUE
  /\ hist' = <<TRUE>>
  /\ UNCHANGED <<modbusFixed, frame>>

\* RenogyBLEDevice.update_parsed_data(raw_data, register, cmd_name): TRUE
\* when the response is parsed and merged.  parser_available is
\* PARSER_AVAILABLE; RenogyParser.parse, of the renogy_ble library, raises
\* (raises) or returns parsed, which may be empty
update_parsed_data(raw_data, parser_available, raises, parsed) ==
  IF raw_data = <<>> THEN FALSE
  ELSE IF ~parser_available THEN FALSE
  ELSE IF Len(raw_data) < 5 THEN FALSE
  ELSE IF Len(raw_data) < 3 + raw_data[3] + 2 THEN FALSE
  ELSE IF raw_data[2] >= 128 THEN FALSE
  ELSE IF raises THEN FALSE
  ELSE parsed # NoMetrics

\* responses handed to update_parsed_data: device id, function code, byte
\* count, data and two CRC bytes, of the length the byte count tells,
\* shorter, longer, with the error bit of the function code, and with a
\* wrong CRC byte
Responses ==
  {<<>>, <<255, 3, 2>>, <<255, 3, 0, 1, 144>>, <<255, 3, 2, 0, 1, 80, 80>>,
   <<255, 3, 2, 0, 1, 80, 80, 9, 9>>, <<255, 3, 4, 0, 1, 80, 80>>,
   <<255, 3, 2, 0, 1, 80>>, <<255, 131, 2, 224, 194>>,
   <<255, 131, 0, 97, 3>>, <<255, 131, 2, 0, 1, 80, 80>>,
   <<255, 3, 2, 0, 1, 80, 81>>}

UpdateParsedData(raw_data, parser_available, raises, parsed) ==
  /\ ev.op = "init"
  /\ LET ret == update_parsed_data(raw_data, parser_available, raises, parsed)
     IN /\ device' = IF ret THEN [device EXCEPT
                                   !.parsed_data = DictUpdate(@, parsed)]
                      ELSE device
        /\ ev' = ParserEv("update_parsed_data", raw_data, <<>>,
                          [ret |-> ret, parsed |-> parsed])
  /\ UNCHANGED <<modbusFixed, last_update_success, data, hist, frame>>

NextParser ==
  \/ \E raw_data \in Responses, parser_available \in BOOLEAN,
        raises \in BOOLEAN, parsed \in ParseResults \cup {NoMetrics} :
       UpdateParsedData(raw_data, parser_available, raises, parsed)
  \/ \E packet \in ManufacturerPackets : ParseShuntPacket(packet)
  \/ \E packet \in NotificationPackets : ParseShuntBlePacket(packet)
  \/ \E messages \in Batches : ParseShuntBleMessages(messages)
  \/ \E received_packets \in Batches,
        manu \in {<<>>, ManufacturerVector,
                  <<76, 0, 0, 0, 0, 0, 0, 0, 0, 0, 0, 0, 0>>} :
       ReadShuntDeviceStore(received_packets, manu)

SpecParser == InitParser /\ [][NextParser]_vars

(***************************************************************************)
(* Properties of the decoders (specification SpecParser)                   *)
(***************************************************************************)

\* C15: after a shunt exchange, every metric key that both a notification
\* and the manufacturer data of the advertisement decode holds, on the
\* device, the value the notifications gave it.
C15_NotificationWinsCollision ==
  ev.op = "_read_shunt_device" =>
    LET notifications == MergePackets(NoMetrics, ev.input)
        manufacturer == parse_shunt_packet(ev.manu).metrics
    IN \A key \in DOMAIN notifications \cap DOMAIN manufacturer :
         device.parsed_data[key] = notifications[key]

\* C16: parse_shunt_ble_messages returns, power_watts aside, exactly the
\* keys of the payloads that decode, taken one by one; every such key holds
\* the value of the last payload that decodes and has the key; payloads
\* that fail to decode add nothing and stop nothing; the two packets of
\* the merge test give battery_voltage 13.468 and state_of_charge 30.5.
C16_BatchMergeIsKeyOverwrite ==
  ev.op = "parse_shunt_ble_messages" =>
    LET result == ev.result.metrics
        decoded == {i \in 1..Len(ev.input) :
                      parse_shunt_ble_packet(ev.input[i]).error = "none"}
        metrics(i) == parse_shunt_ble_packet(ev.input[i]).metrics
        last(key) == CHOOSE i \in decoded :
                       /\ key \in DOMAIN metrics(i)
                       /\ \A j \in decoded :
                            j > i => key \notin DOMAIN metrics(j)
    IN /\ ev.result.error = "none"
       /\ DOMAIN result \ {"power_watts"} =
            UNION {DOMAIN metrics(i) : i \in decoded} \ {"power_watts"}
       /\ \A key \in DOMAIN result \ {"power_watts"} :
            result[key] = metrics(last(key))[key]
       /\ ev.input = <<VoltageVector, ChargeVector>> =>
            result = [packetType |-> "0x03",
                      battery_voltage |-> Some(13468),
                      state_of_charge |-> Some(305)]

\* a batch of a status line, which is skipped, and then the voltage packet
\* of the merge test has been merged
C16_MergedAfterSkippedPayload ==
  /\ ev.op = "parse_shunt_ble_messages"
  /\ Len(ev.input) = 2
  /\ parse_shunt_ble_packet(ev.input[1]).error # "none"
  /\ ev.input[2] = VoltageVector
  /\ ev.result.metrics.battery_voltage = Some(13468)

\* C17: whenever the batch merged by parse_shunt_ble_messages has a voltage
\* (battery_voltage, or bus_voltage when there is no battery_voltage) and a
\* current (discharge_amps, or current when there is no discharge_amps),
\* zero included, power_watts is round(voltage * current, 2) of these two.
C17_PowerFromPreferredFields ==
  ev.op = "parse_shunt_ble_messages" =>
    LET result == ev.result.metrics
        voltage == IF "battery_voltage" \in DOMAIN result
                   THEN result["battery_voltage"]
                   ELSE Get(result, "bus_voltage")
        amps == IF "discharge_amps" \in DOMAIN result
                THEN result["discharge_amps"]
                ELSE Get(result, "current")
    IN voltage # NoValue /\ amps # NoValue =>
         /\ "power_watts" \in DOMAIN result
         /\ result["power_watts"] =
              Some(RoundDiv(voltage[1] * amps[1], 10000))

\* C18: a group-tagged packet (byte 2 neither 0x10 nor 0x44) of a group
\* other than 0x02..0x07, 0x0B, 0x0D fails with "Unsupported group id";
\* of one of these groups, and long enough for the field, it decodes to
\* packetType and the group's field, read little-endian from the payload
\* at offset 4: state_of_charge u16 at [3:5], battery_voltage u32 at [3:7],
\* discharge_amps i24 at [3:6], remaining_time_h u32 at [3:7] (minutes),
\* consumed_Ah u32 at [3:7], discharge_duration_h u16 at [3:5] (minutes),
\* temperature_C i16 at [3:5], starter_volts u32 at [3:7].
C18_GroupFieldsLittleEndian ==
  LET packet == ev.input
      group_id == packet[4]
      payload == Slice(packet, 4, Len(packet))
      key == CASE group_id = 3 -> "state_of_charge"
               [] group_id = 5 -> "battery_voltage"
               [] group_id = 4 -> "discharge_amps"
               [] group_id = 2 -> "remaining_time_h"
               [] group_id = 11 -> "consumed_Ah"
               [] group_id = 6 -> "discharge_duration_h"
               [] group_id = 13 -> "temperature_C"
               [] group_id = 7 -> "starter_volts"
      width == CASE group_id \in {3, 6, 13} -> 2
                 [] group_id = 4 -> 3
                 [] OTHER -> 4
      raw == FromBytesLittle(Slice(payload, 3, 3 + width))
      number == IF group_id \in {4, 13} THEN Signed(raw, width) ELSE raw
      value == CASE group_id \in {2, 6} -> HoursOfMinutes(number)
                 [] group_id = 7 -> RoundDiv(number, 10)
                 [] OTHER -> number
  IN /\ ev.op = "parse_shunt_ble_packet"
     /\ ~IsStatusPacket(packet)
     /\ Len(packet) >= 4
     /\ packet[3] \notin {16, 68}
     => IF group_id \notin GroupIds
        THEN ev.result.error = "Unsupported group id"
        ELSE Len(payload) >= 3 + width =>
               /\ ev.result.error = "none"
               /\ ev.result.metrics =
                    (key :> Some(value)) @@ [packetType |-> Hex(group_id)]

\* C19: parse_shunt_packet raises "packet too short" for fewer than 12
\* bytes; otherwise it skips two bytes and returns bus_voltage (u16,
\* thousandths), shunt_drop (u16, thousandths), current (i16, thousandths),
\* consumed_ah (u16, hundredths), all big-endian, state_of_charge (u8 cut
\* to 0..100, here in tenths), temperature (u8 - 40) and extra_flags (the
\* 13th byte, None without it); the test vector gives 12.0, 10.0, 1.0,
\* 2.5, 80, 25 and 1.
C19_ManufacturerPacketDecoding ==
  ev.op = "parse_shunt_packet" =>
    LET packet == ev.input
        u16(i) == packet[i] * 256 + packet[i + 1]
        i16(i) == IF packet[i] >= 128 THEN u16(i) - 65536 ELSE u16(i)
    IN IF Len(packet) < 12
       THEN ev.result = [error |-> "packet too short", metrics |-> NoMetrics]
       ELSE /\ ev.result.error = "none"
            /\ ev.result.metrics =
                 [bus_voltage |-> <<u16(3)>>,
                  shunt_drop |-> <<u16(5)>>,
                  current |-> <<i16(7)>>,
                  consumed_ah |-> <<u16(9)>>,
                  state_of_charge |->
                    <<10 * (IF packet[11] > 100 THEN 100 ELSE packet[11])>>,
                  temperature |-> <<packet[12] - 40>>,
                  extra_flags |-> IF Len(packet) >= 13 THEN <<packet[13]>>
                                  ELSE <<>>]
            /\ packet = ManufacturerVector =>
                 ev.result.metrics =
                   [bus_voltage |-> <<12000>>, shunt_drop |-> <<10000>>,
                    current |-> <<1000>>, consumed_ah |-> <<250>>,
                    state_of_charge |-> <<800>>, temperature |-> <<25>>,
                    extra_flags |-> <<1>>]

\* the test vector has been decoded
C19_TestVectorDecoded ==
  /\ ev.op = "parse_shunt_packet"
  /\ ev.input = ManufacturerVector
  /\ ev.result.error = "none"
  /\ ev.result.metrics.bus_voltage = <<12000>>

\* C20: parse_shunt_ble_packet raises an error, and returns no metric, for
\* every payload that begins with 'A' 'T', whatever follows; a batch and a
\* shunt exchange give the metrics they give without these payloads.
C20_StatusLineRejected ==
  LET status(packet) == Len(packet) >= 2 /\ SubSeq(packet, 1, 2) = <<65, 84>>
      others(batch) == SelectSeq(batch, LAMBDA packet : ~status(packet))
  IN /\ ev.op = "parse_shunt_ble_packet" /\ status(ev.input) =>
          ev.result.error # "none" /\ ev.result.metrics = NoMetrics
     /\ ev.op = "parse_shunt_ble_messages" =>
          ev.result.metrics = parse_shunt_ble_messages(others(ev.input))
     /\ ev.op = "_read_shunt_device" =>
          /\ device.parsed_data = ShuntMetrics(others(ev.input), ev.manu)
          /\ data = device.parsed_data

\* a shunt exchange received a status line whose remaining bytes are those
\* of the numeric packet, and the voltage packet: only the voltage is stored
C20_StatusLineInExchange ==
  /\ ev.op = "_read_shunt_device"
  /\ ev.input = <<VoltageVector, <<65, 84>> \o SubSeq(NumericVector, 3, 14)>>
  /\ ev.manu = <<>>
  /\ device.parsed_data =
       [packetType |-> "0x05", battery_voltage |-> Some(13468)]

\* C21: the packet 'B' 'W' 01 05 00 13 88 00 is not rejected as a status
\* line by parse_shunt_ble_packet; it decodes as a packet of group 0x05,
\* to packetType "0x05" and battery_voltage 5.0.
C21_BwHeaderDecoded ==
  ev.op = "parse_shunt_ble_packet"
    /\ ev.input = <<66, 87, 1, 5, 0, 19, 136, 0>> =>
      /\ ev.result.error = "none"
      /\ ev.result.metrics =
           [packetType |-> "0x05", battery_voltage |-> Some(5000)]

(***************************************************************************)
(*      utils.py: ModbusUtils.crc16 and ModbusUtils.create_read_request    *)
(*      (specification SpecUtils)                                          *)
(***************************************************************************)

\* a ^ b for a and b below 2^16: the bits that differ
Xor(a, b) ==
  LET differ == {i \in 0..15 : (a \div (2 ^ i)) % 2 # (b \div (2 ^ i)) % 2}
      sum[i \in 0..16] ==
        IF i = 16 THEN 0
        ELSE (IF i \in differ THEN 2 ^ i ELSE 0) + sum[i + 1]
  IN sum[0]

Crc16ShiftNoPolynomial(crc) == crc \div 2

\* one turn of "for _ in range(8)": crc & 0x0001 selects
\* (crc >> 1) ^ 0xA001 or crc >> 1
Crc16Shift(crc) ==
  IF crc % 2 = 1 THEN Xor(crc \div 2, 40961) ELSE crc \div 2

\* one turn of "for pos in data": crc ^= pos, then the eight shifts
Crc16Byte(crc, pos) ==
  Crc16Shift(Crc16Shift(Crc16Shift(Crc16Shift(
    Crc16Shift(Crc16Shift(Crc16Shift(Crc16Shift(Xor(crc, pos)))))))))

RECURSIVE Crc16Value(_, _)
\* crc after the loop over bytes, from crc (next is crc after the first
\* byte, computed before the remaining bytes are looked at)
Crc16Value(crc, bytes) ==
  IF bytes = <<>> THEN crc
  ELSE CHOOSE value \in {Crc16Value(next, Tail(bytes)) :
                           next \in {Crc16Byte(crc, Head(bytes))}} : TRUE

\* return crc & 0xFF, (crc >> 8) & 0xFF
Crc16Pair(crc) == <<crc % 256, (crc \div 256) % 256>>

\* ModbusUtils.crc16(data)
crc16(bytes) == Crc16Pair(Crc16Value(65535, bytes))

create_read_request_high_first(device_id, function_code, register, word_count) ==
  LET request == <<device_id, function_code, (register \div 256) % 256,
                   register % 256, (word_count \div 256) % 256,
                   word_count % 256>>
  IN request \o <<crc16(request)[2], crc16(request)[1]>>

\* ModbusUtils.create_read_request(device_id, function_code, register,
\* word_count)
create_read_request(device_id, function_code, register, word_count) ==
  LET request == <<device_id, function_code, (register \div 256) % 256,
                   register % 256, (word_count \div 256) % 256,
                   word_count % 256>>
  IN request \o crc16(request)

\* the frames given to crc16
Frames == UNION {[1..n -> {0, 1, 3, 128, 255}] : n \in 0..MaxFrameLen}

\* The call, and for crc16 where it is: data, the bytes consumed (pos)
\* and crc.  One call is made in a behaviour.
UtilsEv(op, input, result) == [op |-> op, input |-> input, result |-> result]

InitUtils ==
  /\ hassState = "running"
  /\ deviceType = "controller"
  /\ phase = "started"
  /\ refreshTask = 0
  /\ listeners = <<>>
  /\ connection_in_progress = FALSE
  /\ lockHolder = 0
  /\ lockWaiters = <<>>
  /\ sessions = {}
  /\ device = NewDevice
  /\ last_update_success = TRUE
  /\ data = 0
  /\ last_poll_time = None
  /\ tasks = [t \in Tasks |-> IdleTask]
  /\ ev = UtilsEv("init", <<>>, <<>>)
  /\ hist = <<>>
  /\ frame = [pc |-> "idle"]

utilsFixed == <<modbusFixed, device, last_update_success, data, hist>>

\* crc16 is called: crc = 0xFFFF
Crc16Enter(bytes) ==
  /\ frame.pc = "idle"
  /\ frame' = [pc |-> "crc16", data |-> bytes, pos |-> 0, crc |-> 65535]
  /\ UNCHANGED <<utilsFixed, ev>>

\* one byte of data is taken in
Crc16Step ==
  /\ frame.pc = "crc16"
  /\ frame.pos < Len(frame.data)
  /\ frame' = [frame EXCEPT
                 !.pos = @ + 1,
                 !.crc = Crc16Byte(frame.crc, frame.data[frame.pos + 1])]
  /\ UNCHANGED <<utilsFixed, ev>>

\* the loop is over: the two bytes are returned
Crc16Return ==
  /\ frame.pc = "crc16"
  /\ frame.pos = Len(frame.data)
  /\ frame' = [frame EXCEPT !.pc = "done"]
  /\ ev' = UtilsEv("crc16", frame.data, Crc16Pair(frame.crc))
  /\ UNCHANGED utilsFixed

CreateReadRequest(device_id, function_code, register, word_count) ==
  /\ frame.pc = "idle"
  /\ frame' = [pc |-> "done"]
  /\ ev' = UtilsEv("create_read_request",
                   <<device_id, function_code, register, word_count>>,
                   create_read_request(device_id, function_code, register,
                                       word_count))
  /\ UNCHANGED utilsFixed

NextUtils ==
  \/ \E bytes \in Frames : Crc16Enter(bytes)
  \/ Crc16Step
  \/ Crc16Return
  \/ \* DEFAULT_DEVICE_ID and others, the registers and word counts of
     \* COMMANDS and the ends of their ranges
     \E device_id \in {0, 1, 255}, function_code \in {3, 131},
        register \in {0, 12, 26, 256, 57348, 65535},
        word_count \in {0, 1, 8, 34, 65535} :
       CreateReadRequest(device_id, function_code, register, word_count)

SpecUtils == InitUtils /\ [][NextUtils]_vars

\* C22: crc16 of the empty input is (0xFF, 0xFF); crc16 of a frame
\* followed by the (low, high) bytes crc16 returned for it is (0, 0); the
\* running value is what the reflected CRC16 with 0xFFFF and 0xA001 gives
\* for the bytes taken in, bit by bit, and is always within 16 bits.
C22_Crc16 ==
  LET bit(n, i) == (n \div (2 ^ i)) % 2
      xor(a, b) ==
        LET sum[i \in 0..16] ==
              IF i = 16 THEN 0
              ELSE (2 ^ i) * ((bit(a, i) + bit(b, i)) % 2) + sum[i + 1]
        IN sum[0]
      shifted(c, n) ==
        LET step[i \in 0..8] ==
              IF i = 0 THEN c
              ELSE IF step[i - 1] % 2 = 1
                   THEN xor(step[i - 1] \div 2, 40961)
                   ELSE step[i - 1] \div 2
        IN step[n]
      value(bytes) ==
        LET after[i \in 0..Len(bytes)] ==
              IF i = 0 THEN 65535
              ELSE shifted(xor(after[i - 1], bytes[i]), 8)
        IN after[Len(bytes)]
  IN /\ frame.pc = "crc16" =>
          /\ frame.crc \in 0..65535
          /\ frame.crc = value(SubSeq(frame.data, 1, frame.pos))
     /\ ev.op = "crc16" =>
          /\ ev.result = <<value(ev.input) % 256, value(ev.input) \div 256>>
          /\ ev.input = <<>> => ev.result = <<255, 255>>
          /\ crc16(ev.input \o ev.result) = <<0, 0>>

\* crc16 has returned for a frame of three bytes
C22_Crc16OfThreeBytes ==
  ev.op = "crc16" /\ Len(ev.input) = 3 /\ ev.result # <<255, 255>>

\* C23: create_read_request returns eight bytes: device_id, function_code,
\* the high and the low byte of register, the high and the low byte of
\* word_count, then the low and the high byte of the CRC16 of these six;
\* the request for (0xFF, 3, 256, 34) is FF 03 01 00 00 22 D1 F1.
C23_ReadRequestLayout ==
  ev.op = "create_read_request" =>
    LET device_id == ev.input[1]
        function_code == ev.input[2]
        register == ev.input[3]
        word_count == ev.input[4]
        request == ev.result
    IN /\ Len(request) = 8
       /\ \A i \in 1..8 : request[i] \in 0..255
       /\ request[1] = device_id /\ request[2] = function_code
       /\ request[3] * 256 + request[4] = register
       /\ request[5] * 256 + request[6] = word_count
       /\ <<request[7], request[8]>> = crc16(SubSeq(request, 1, 6))
       /\ crc16(request) = <<0, 0>>
       /\ ev.input = <<255, 3, 256, 34>> =>
            request = <<255, 3, 1, 0, 0, 34, 209, 241>>

\* the request for the pv command of the controller has been built
C23_PvRequestBuilt ==
  /\ ev.op = "create_read_request"
  /\ ev.input = <<255, 3, 256, 34>>
  /\ SubSeq(ev.result, 1, 6) = <<255, 3, 1, 0, 0, 34>>

\* C24: in a Modbus exchange the loop turns to a command only from the
\* command before it, when that command's response was handed over or its
\* wait timed out, and with an empty response buffer; a request is written
\* only for the command the loop is at, once; while a response is awaited
\* the command awaited is the last one written.
C24_CommandsSequential ==
  [][/\ frame'.pc = "write" /\ frame.pc # "write" =>
          /\ frame'.cmd = frame.cmd + 1
          /\ frame'.notification_data = <<>>
          /\ ~frame'.notification_event
          /\ frame.cmd = 0 \/
               /\ ev'.op \in {"update_parsed_data", "timeout"}
               /\ ev'.cmd = frame.cmd
     /\ frame'.written # frame.written =>
          /\ frame.pc = "write"
          /\ frame'.written = Append(frame.written, Table[frame.cmd])
          /\ Len(frame'.written) = frame.cmd
     /\ frame'.pc = "wait" =>
          /\ frame'.cmd = Len(frame'.written)
          /\ frame'.cmd = frame.cmd
    ]_vars

\* the wait for the first command timed out with some bytes received, and
\* the loop is at the second command with an empty buffer
C24_SecondCommandAfterTimeout ==
  /\ frame.pc = "write" /\ frame.cmd = 2
  /\ ev.op = "timeout" /\ ev.cmd = 1 /\ ev.arrived # <<>>
  /\ frame.notification_data = <<>>
  /\ frame.written = <<"device_info">>

\* C25: update_parsed_data returns False and leaves the metrics alone
\* unless the response has at least 5 bytes, 3 + byte count + 2 is its
\* length and the high bit of the function code is clear; with that bit
\* set it always returns False.
C25_MalformedResponseRejected ==
  ev.op = "update_parsed_data" =>
    LET raw_data == ev.input
        well_formed == /\ Len(raw_data) >= 5
                       /\ 3 + raw_data[3] + 2 = Len(raw_data)
                       /\ raw_data[2] < 128
    IN /\ ~well_formed =>
            ~ev.result.ret /\ device.parsed_data = NoMetrics
       /\ Len(raw_data) >= 2 /\ raw_data[2] >= 128 => ~ev.result.ret

(* ---------------- sessions, cancellation (Spec) ---------------- *)
\* C26: in the step in which a task gives up the connection lock, the
\* transport session it had opened is closed: whatever the way the exchange
\* ended, the task came through the disconnect of the finally block.
C26_SessionClosedBeforeRelease ==
  [][\A t \in Tasks :
       (lockHolder = t /\ lockHolder' # t)
         => /\ t \notin sessions'
            /\ t \in sessions => tasks[t].pc = "disconnect"]_vars

\* C26 witness: a shunt exchange that had its session open ended by the
\* notification timeout (a failure without an availability update); the
\* session is closed and the lock free.
C26_ClosedAfterNotificationTimeout ==
  /\ IsShunt
  /\ ev.op = "cycle_end"
  /\ ev.outcome = "failure"
  /\ ev.updates = <<>>
  /\ sessions = {}
  /\ lockHolder = 0

\* the suspension points of an exchange before the finally block
CancelPoints == ExchangePcs \ {"disconnect"}

\* C27: a task cancelled at connection establishment, subscribe, write,
\* notification wait or unsubscribe leaves the exchange through the finally
\* blocks: if it had opened a session it goes to the disconnect, and when
\* its coroutine ends the lock is free, _connection_in_progress is false
\* and its session is closed.
C27_CancellationReleasesEverything ==
  [][\A t \in Tasks :
       /\ (tasks[t].cancelReq /\ tasks[t].pc \in CancelPoints
              /\ tasks'[t] # tasks[t] /\ t \in sessions)
            => (tasks'[t].pc = "disconnect"
                  /\ tasks'[t].result = "cancelled")
       /\ (tasks'[t] # tasks[t]
              /\ \/ tasks[t].cancelReq /\ tasks[t].pc = "connect"
                 \/ tasks[t].result = "cancelled")
            => /\ tasks'[t] = IdleTask
               /\ lockHolder' = 0
               /\ ~connection_in_progress'
               /\ t \notin sessions']_vars

\* C27 witness: CancelledError was thrown into a task that holds the lock
\* and has its session open; the task is in the finally block, about to
\* disconnect.
C27_CancelledWithSessionOpen ==
  \E t \in Tasks :
    /\ tasks[t].result = "cancelled"
    /\ tasks[t].pc = "disconnect"
    /\ t \in sessions
    /\ lockHolder = t

(* ------------------- deadlines (SpecModbusLive) ------------------- *)
\* the suspension points of the Modbus exchange while the session is open
SessionOpenPcs == {"subscribe", "write", "wait", "unsub", "disconnect"}

\* the wait for a response ends: the response is completed or the deadline
\* of wait_for passes
NotificationWaitEnds == (frame.pc = "wait") ~> (frame.pc # "wait")

\* C28: every wait of an exchange after connection establishment has a
\* deadline, so an exchange whose session is open eventually ends, even if
\* a write never completes or the device never responds.
C28_ExchangeEndsOnceSessionOpen ==
  (frame.pc \in SessionOpenPcs) ~> (frame.pc = "done")

(* ------------- errors of the closing step (SpecModbus) ------------- *)
\* C29: when the exchange has recorded an error before the session is
\* closed, the error passed to update_availability is that error, also when
\* client.disconnect() raises.
C29_EarlierErrorKept ==
  [][(frame.pc = "disconnect" /\ frame.error # "unbound"
        /\ frame'.pc = "done")
       => /\ frame'.final_error = frame.error
          /\ frame'.returned = "failure"]_vars

\* C29 witness: the disconnect raised after an except clause of the try
\* block had recorded an error; update_availability got the earlier error.
C29_DisconnectErrorAfterCaughtError ==
  /\ frame.pc = "done"
  /\ ev.op = "disconnect_error"
  /\ frame.except_taken
  /\ frame.final_error = "caught"

\* C30: once establish_connection has returned a session the exchange
\* reaches update_availability and returns a bool; no UnboundLocalError
\* leaves _read_modbus_device, whatever the commands and the disconnect do.
C30_NoUnboundLocalError ==
  frame.pc = "done" => frame.returned \in {"success", "failure"}

(* --------------- CRC of a response (SpecParser) --------------- *)
\* C31: a response of the length its byte count tells whose last two bytes
\* are not the CRC16 (low byte first) of the bytes before them is rejected:
\* update_parsed_data returns False and merges nothing.
C31_BadCrcRejected ==
  ev.op = "update_parsed_data" =>
    LET raw_data == ev.input
        n == Len(raw_data)
    IN (/\ n >= 5
        /\ n = 3 + raw_data[3] + 2
        /\ SubSeq(raw_data, n - 1, n) # crc16(SubSeq(raw_data, 1, n - 2)))
         => ~ev.result.ret /\ device.parsed_data = NoMetrics

(* ------------- last_unavailable_time (SpecDevice) ------------- *)
\* C32: last_unavailable_time is set exactly when the device is
\* unavailable: set by the failure that reaches max_failures, kept while
\* unavailable, cleared by the success that restores the device.
C32_UnavailableTimeIffUnavailable ==
  (device.last_unavailable_time # None) <=> ~IsAvailable(device)

\* C32 witness: a success has restored a device that was unavailable and
\* has cleared last_unavailable_time.
C32_TimeClearedByRecovery ==
  /\ Len(hist) > max_failures
  /\ hist[Len(hist)]
  /\ \A i \in (Len(hist) - max_failures)..(Len(hist) - 1) : ~hist[i]
  /\ device.last_unavailable_time = None
  /\ device.available

(* ------------------ flag and lock (Spec) ------------------ *)
\* C33: _connection_in_progress is true exactly when the connection lock
\* is held, under any interleaving of polls, refreshes and async_stop.
C33_FlagIffLockHeld ==
  connection_in_progress <=> lockHolder # 0

(* -------------- outcome of a refresh cycle (Spec) -------------- *)
\* C34: when async_request_refresh returns from a cycle whose exchange
\* returned, last_update_success is true if the exchange succeeded and
\* false if it failed.
C34_RefreshFlagIsOutcome ==
  (ev.op = "cycle_end" /\ ev.entry \in RefreshEntries
     /\ ev.outcome \in {"success", "failure"})
    => (last_update_success <=> ev.outcome = "success")

(* ------------- late notifications (SpecModbus) ------------- *)
\* C35: every byte of the response handed over for command k was sent by
\* the device in reply to command k; bytes that reply to command k-1 and
\* arrive after its wait timed out are not part of it.
C35_ResponseBytesOfOwnCommand ==
  [][ev'.op = "update_parsed_data" =>
       \A i \in 1..ExpectedLen(Table[ev'.cmd]) :
         frame.origin[i] = ev'.cmd]_vars

(* ------- availability success and cycle success (Spec) ------- *)
\* C36: a cycle in which update_availability was called with success
\* (failure_count reset to 0) is also reported as successful by the
\* coordinator: last_update_success is true after it and, when listeners
\* are registered and the host lets them run, they were called.
C36_AvailabilitySuccessIsCycleSuccess ==
  (ev.op = "cycle_end" /\ \E i \in DOMAIN ev.updates : ev.updates[i])
    => /\ last_update_success
       /\ (listeners # <<>> /\ HassAllowsListeners) => ev.fired # <<>>

(* ------------- short group packets (SpecParser) ------------- *)
\* C37: a group-tagged packet whose payload ends before the last byte of
\* its group's field yields no number for that field: decoding fails, or
\* the field is missing from the result, or it is None.
C37_ShortGroupPacketHasNoNumber ==
  LET packet == ev.input
      group_id == packet[4]
      payload == Slice(packet, 4, Len(packet))
      key == CASE group_id = 3 -> "state_of_charge"
               [] group_id = 5 -> "battery_voltage"
               [] group_id = 4 -> "discharge_amps"
               [] group_id = 2 -> "remaining_time_h"
               [] group_id = 11 -> "consumed_Ah"
               [] group_id = 6 -> "discharge_duration_h"
               [] group_id = 13 -> "temperature_C"
               [] group_id = 7 -> "starter_volts"
      width == CASE group_id \in {3, 6, 13} -> 2
                 [] group_id = 4 -> 3
                 [] OTHER -> 4
  IN (/\ ev.op = "parse_shunt_ble_packet"
      /\ ~IsStatusPacket(packet)
      /\ Len(packet) >= 4
      /\ packet[3] \notin {16, 68}
      /\ group_id \in GroupIds
      /\ Len(payload) < 3 + width)
     => \/ ev.result.error # "none"
        \/ key \notin DOMAIN ev.result.metrics
        \/ ev.result.metrics[key] = NoValue

(* ---------------- listeners after async_stop (Spec) ---------------- *)
\* C38: async_stop leaves no listener registered, and the end of a cycle
\* after the stop calls only listeners that are registered at that moment:
\* a listener of before the stop is not called again (unless it is
\* registered anew), also when an exchange that was in flight at the stop
\* succeeds afterwards.
C38_NoListenerAfterStop ==
  [][/\ (phase = "started" /\ phase' = "stopped") => listeners' = <<>>
     /\ (phase = "stopped" /\ ev'.op = "cycle_end") =>
          \A i \in DOMAIN ev'.fired : InSeq(listeners, ev'.fired[i])
     /\ (phase = "stopped" /\ ev'.op = "cycle_end" /\ listeners = <<>>) =>
          ev'.fired = <<>>]_vars

\* C38 witness: async_stop has just dropped a registered listener while
\* an exchange with an open session is in flight.
C38_StoppedWithExchangeInFlight ==
  /\ ev.op = "stop"
  /\ ev.dropped # <<>>
  /\ listeners = <<>>
  /\ \E t \in Tasks : t \in sessions /\ ~tasks[t].cancelReq

(* ------------------ coordinator.data (Spec) ------------------ *)
\* C39: coordinator.data changes only in the last step of the try block
\* of a successful shunt exchange (after which the exchange returns True
\* unless it is cancelled) and at the end of a successful Modbus exchange;
\* an exchange that fails leaves it as it was.
C39_DataOnlyFromSuccess ==
  [][/\ data' # data =>
          IF IsShunt
          THEN \E t \in Tasks :
                 /\ tasks[t].pc = "unsub"
                 /\ tasks'[t].pc = "disconnect"
                 /\ tasks'[t].result = "success"
          ELSE ev'.op = "cycle_end" /\ ev'.outcome = "success"
     /\ \A t \in Tasks :
          (IsShunt /\ tasks[t].pc = "disconnect"
             /\ tasks[t].result = "success"
             /\ tasks'[t].pc # "disconnect")
            => (ev'.op = "cycle_end"
                  /\ ev'.outcome \in {"success", "cancelled"})
     /\ (ev'.op = "cycle_end" /\ ev'.outcome \in {"failure", "raised"}
           /\ \E t \in Tasks : tasks[t].pc = "disconnect"
                                  /\ tasks[t].result # "success")
          => data' = data]_vars

\* C39 witness: a Modbus exchange that parsed a response and then failed
\* has ended; the device holds the parsed values and coordinator.data is
\* still empty.
C39_FailedExchangeKeepsData ==
  /\ ~IsShunt
  /\ ev.op = "cycle_end"
  /\ ev.outcome = "failure"
  /\ device.parsed_data # 0
  /\ data = 0

(* ---------------- listeners per cycle (Spec) ---------------- *)
\* C40: at the end of a successful cycle (the exchange succeeded and the
\* device holds data, the host lets listeners run), of a poll or of a
\* refresh, every registered listener was called exactly once; no listener
\* is registered twice.
C40_ListenersOncePerCycle ==
  /\ \A i, j \in DOMAIN listeners : listeners[i] = listeners[j] => i = j
  /\ (ev.op = "cycle_end" /\ ev.outcome = "success"
        /\ device.parsed_data # 0 /\ HassAllowsListeners)
       => ev.fired = listeners
====
